---------------------------- MODULE Spec2Model ----------------------------
(***************************************************************************)
(* State-machine model of the deterministic simulation testing (DST) core  *)
(* of verified-concurrent (crates/vf-dst) and of its property checker      *)
(* (crates/vf-core).                                                       *)
(*                                                                         *)
(* Conventions.                                                            *)
(*  - Every component is modelled by pure operators, one per method, that  *)
(*    take the component's record and return the new record together with  *)
(*    the value the call returns; the actions of a specification apply     *)
(*    them to the state variables and record the call in `last`.           *)
(*  - The code's contract checks are debug_assert!s.  The model is of the  *)
(*    build the crate's tests run (debug assertions and overflow checks    *)
(*    on): a failed check is a panic, recorded as tag "panic", and the     *)
(*    state keeps whatever the method had written before the check.        *)
(*  - u64 is scaled to a small word (U64_MAX), and the constants that are  *)
(*    measured against it are scaled with it.  f64 probabilities are       *)
(*    integers in units of 0.0001: 0..PROB_ONE is the range [0.0, 1.0].    *)
(*  - The Xoshiro256** generator is an external crate.  Its state after    *)
(*    seed_from_u64(seed) and pos invocations is the pair (seed, pos), and *)
(*    its output there is the fixed function Xoshiro_next_u64.             *)
(***************************************************************************)
EXTENDS Integers, Sequences, FiniteSets, TLC

VARIABLES
    clock,      \* SimClock.now_ns of the clock under test
    rng,        \* the DeterministicRng under test
    forked,     \* the generators returned by fork(), oldest first
    fault,      \* the FaultInjector under test
    sched,      \* the Scheduler under test
    env,        \* the DstEnv under test
    env2,       \* a second DstEnv, driven through the same calls as env
    pending,    \* the call env has answered and env2 has not yet
    stack,      \* the structure the StackPropertyChecker looks at
    checker,    \* the StackPropertyChecker (its dst_seed)
    check_all_results,  \* what check_all of a PropertyChecker implementation returns
    summary,    \* the PropertySummary last returned by summary(), if any
    advancing,  \* the threads inside advance_ns on a shared SimClock
    treiber,    \* the StackState of the Treiber stack model
    ssi,        \* the SsiState of the SSI state machine
    raft,       \* the RaftElection servers, their callers and the network
    picking,    \* a call inside the scheduler's rejection-sampling loop
    last        \* the last call: its name, argument and outcome

vars == <<clock, rng, forked, fault, sched, env, env2, pending, stack, checker,
          check_all_results, summary, advancing, treiber, ssi, raft, picking,
          last>>

(***************************************************************************)
(* Words and scaled program constants                                      *)
(***************************************************************************)
\* u64::MAX, scaled to a 6-bit word.
U64_MAX == 63
\* The room TIME_NS_MAX leaves below u64::MAX (1_000_000_000_000), scaled.
TIME_NS_RESERVE == 15
TIME_NS_MAX == U64_MAX - TIME_NS_RESERVE
\* Nanoseconds per microsecond (1_000) and per millisecond (1_000_000), scaled.
NS_PER_US == 2
NS_PER_MS == 4

U64 == 0..U64_MAX

\* A call that returned v, and a call that panicked.
Ok(v) == [tag |-> "ok", val |-> v]
Panic == [tag |-> "panic", val |-> 0]

\* Values recorded in `last` carry their kind as the name of their one field,
\* so that any two of them can be compared.
NoV == [none |-> 0]
IntV(v) == [int |-> v]
BoolV(v) == [bool |-> v]
SeqV(v) == [seq |-> v]

\* The record of a call: its name, its argument, whether it returned, and the
\* value it returned (an integer, a boolean, a sequence or a record).
NoCall == [op |-> "none", arg |-> NoV, tag |-> "ok", val |-> NoV]
CallInt(op, arg, out) ==
    [op |-> op, arg |-> arg, tag |-> out.tag,
     val |-> IF out.tag = "ok" THEN IntV(out.val) ELSE NoV]
CallBool(op, arg, out) ==
    [op |-> op, arg |-> arg, tag |-> out.tag,
     val |-> IF out.tag = "ok" THEN BoolV(out.val) ELSE NoV]
CallSeq(op, arg, out) ==
    [op |-> op, arg |-> arg, tag |-> out.tag,
     val |-> IF out.tag = "ok" THEN SeqV(out.val) ELSE NoV]
CallRec(op, arg, out) ==
    [op |-> op, arg |-> arg, tag |-> out.tag,
     val |-> IF out.tag = "ok" THEN out.val ELSE NoV]
CallUnit(op, arg, out) ==
    [op |-> op, arg |-> arg, tag |-> out.tag, val |-> NoV]

(***************************************************************************)
(* SimClock (clock.rs)                                                     *)
(***************************************************************************)
SimClock_new == 0

\* with_start_time_ns: the start time is asserted to be at most TIME_NS_MAX.
SimClock_with_start_time_ns(start_ns) ==
    IF start_ns <= TIME_NS_MAX THEN [st |-> start_ns, out |-> Ok(start_ns)]
    ELSE [st |-> SimClock_new, out |-> Panic]

SimClock_now_ns(now) == now
SimClock_now_us(now) == SimClock_now_ns(now) \div NS_PER_US
SimClock_now_ms(now) == SimClock_now_ns(now) \div NS_PER_MS

\* A variant without the overflow check: the add wraps.
SimClock_advance_ns_unchecked(now, delta_ns) ==
    IF delta_ns = 0 THEN [st |-> now, out |-> Panic]
    ELSE [st |-> (now + delta_ns) % (U64_MAX + 1), out |-> Ok(0)]

\* advance_ns: delta_ns > 0 is asserted; TIME_NS_MAX - delta_ns is a checked
\* subtraction; current <= TIME_NS_MAX - delta_ns is asserted; then fetch_add,
\* which wraps.
SimClock_advance_ns(now, delta_ns) ==
    IF delta_ns = 0 THEN [st |-> now, out |-> Panic]
    ELSE IF delta_ns > TIME_NS_MAX THEN [st |-> now, out |-> Panic]
    ELSE IF ~(now <= TIME_NS_MAX - delta_ns) THEN [st |-> now, out |-> Panic]
    ELSE [st |-> (now + delta_ns) % (U64_MAX + 1), out |-> Ok(0)]

\* The two halves of advance_ns as threads sharing the clock take them.  The
\* first is the load of now_ns and the two assertions on the value loaded.
SimClock_advance_ns_check(current, delta_ns) ==
    IF delta_ns = 0 THEN Panic
    ELSE IF delta_ns > TIME_NS_MAX THEN Panic
    ELSE IF ~(current <= TIME_NS_MAX - delta_ns) THEN Panic
    ELSE Ok(0)

\* The second half: now_ns.fetch_add(delta_ns), one atomic read-modify-write
\* of the time at that moment, which wraps.
SimClock_fetch_add(now, delta_ns) ==
    (now + delta_ns) % (U64_MAX + 1)

\* advance_us: delta_us > 0 is asserted; delta_us * 1_000 is a checked
\* multiplication.
SimClock_advance_us(now, delta_us) ==
    IF delta_us = 0 THEN [st |-> now, out |-> Panic]
    ELSE IF delta_us * NS_PER_US > U64_MAX THEN [st |-> now, out |-> Panic]
    ELSE SimClock_advance_ns(now, delta_us * NS_PER_US)

\* A variant that converts milliseconds with the microsecond factor.
SimClock_advance_ms_wrong_unit(now, delta_ms) ==
    IF delta_ms = 0 THEN [st |-> now, out |-> Panic]
    ELSE IF delta_ms * NS_PER_US > U64_MAX THEN [st |-> now, out |-> Panic]
    ELSE SimClock_advance_ns(now, delta_ms * NS_PER_US)

SimClock_advance_ms(now, delta_ms) ==
    IF delta_ms = 0 THEN [st |-> now, out |-> Panic]
    ELSE IF delta_ms * NS_PER_MS > U64_MAX THEN [st |-> now, out |-> Panic]
    ELSE SimClock_advance_ns(now, delta_ms * NS_PER_MS)

\* A variant of sleep_ns that hands every duration to advance_ns.
SimClock_sleep_ns_always_advance(now, duration_ns) ==
    SimClock_advance_ns(now, duration_ns)

\* sleep_ns, sleep_ms: nothing is done for a duration of 0; otherwise the
\* duration is handed to advance_ns, advance_ms.
SimClock_sleep_ns(now, duration_ns) ==
    IF duration_ns > 0 THEN SimClock_advance_ns(now, duration_ns)
    ELSE [st |-> now, out |-> Ok(0)]

SimClock_sleep_ms(now, duration_ms) ==
    IF duration_ms > 0 THEN SimClock_advance_ms(now, duration_ms)
    ELSE [st |-> now, out |-> Ok(0)]

SimClock_reset(now) == [st |-> 0, out |-> Ok(0)]

(***************************************************************************)
(* DeterministicRng (random.rs)                                            *)
(***************************************************************************)
\* RNG_CALLS_WARNING_THRESHOLD (1_000_000_000), scaled.
RNG_CALLS_WARNING_THRESHOLD == 4
\* The model stops drawing from a generator after this many counted calls.
MaxCalls == 4
\* Seeds offered to the constructors: 0..MaxSeed.
MaxSeed == 2
\* Slices offered to shuffle and choose have at most this many elements.
MaxSlice == 3

\* Output number pos of the Xoshiro256** stream seeded with seed_from_u64(seed).
Xoshiro_next_u64(seed, pos) ==
    LET t == seed * 17 + pos * 33 + 19 IN
    ((t * t) \div 4 + seed + pos) % (U64_MAX + 1)

\* A variant of new that accepts the zero seed.
DeterministicRng_new_any_seed(seed) ==
    [st |-> [seed |-> seed, pos |-> 0, calls |-> 0], out |-> Ok(seed)]

\* new: seed != 0 is asserted.  pos counts the invocations of the wrapped
\* generator since it was seeded.
DeterministicRng_new(seed) ==
    IF seed = 0 THEN [st |-> [seed |-> 0, pos |-> 0, calls |-> 0], out |-> Panic]
    ELSE [st |-> [seed |-> seed, pos |-> 0, calls |-> 0], out |-> Ok(seed)]

DeterministicRng_seed(r) == r.seed
DeterministicRng_calls_count(r) == r.calls

\* A variant of gen whose stream position is shared between generators: a
\* call made while another environment's call is outstanding skips a value.
DeterministicRng_gen_shared_stream(r) ==
    LET r1 == [r EXCEPT !.calls = @ + 1] IN
    IF ~(r1.calls < RNG_CALLS_WARNING_THRESHOLD) THEN [st |-> r1, out |-> Panic]
    ELSE [st |-> [r1 EXCEPT !.pos = @ + 1],
          out |-> Ok(Xoshiro_next_u64(r.seed, r.pos + Len(pending)))]

\* gen::<u64>: calls_count is incremented, then asserted to be below the
\* warning threshold, then one value is drawn.
DeterministicRng_gen(r) ==
    LET r1 == [r EXCEPT !.calls = @ + 1] IN
    IF ~(r1.calls < RNG_CALLS_WARNING_THRESHOLD) THEN [st |-> r1, out |-> Panic]
    ELSE [st |-> [r1 EXCEPT !.pos = @ + 1],
          out |-> Ok(Xoshiro_next_u64(r.seed, r.pos))]

\* gen_range(low..=high): as gen; rand panics on an empty range.
DeterministicRng_gen_range(r, low, high) ==
    LET r1 == [r EXCEPT !.calls = @ + 1] IN
    IF ~(r1.calls < RNG_CALLS_WARNING_THRESHOLD) THEN [st |-> r1, out |-> Panic]
    ELSE IF low > high THEN [st |-> r1, out |-> Panic]
    ELSE [st |-> [r1 EXCEPT !.pos = @ + 1],
          out |-> Ok(low + (Xoshiro_next_u64(r.seed, r.pos) % (high - low + 1)))]

\* The probability 1.0, in units of 0.0001.
PROB_ONE == 10000

\* A variant of gen_bool that does not count the call.
DeterministicRng_gen_bool_uncounted(r, probability) ==
    IF ~(0 <= probability /\ probability <= PROB_ONE) THEN [st |-> r, out |-> Panic]
    ELSE IF probability = PROB_ONE THEN [st |-> r, out |-> Ok(TRUE)]
    ELSE [st |-> [r EXCEPT !.pos = @ + 1],
          out |-> Ok(Xoshiro_next_u64(r.seed, r.pos) * PROB_ONE
                        < probability * (U64_MAX + 1))]

\* gen_bool: the probability is asserted to lie in [0.0, 1.0] before the call
\* is counted.  rand's Bernoulli answers a probability of 1.0 without drawing.
DeterministicRng_gen_bool(r, probability) ==
    IF ~(0 <= probability /\ probability <= PROB_ONE) THEN [st |-> r, out |-> Panic]
    ELSE LET r1 == [r EXCEPT !.calls = @ + 1] IN
         IF probability = PROB_ONE THEN [st |-> r1, out |-> Ok(TRUE)]
         ELSE [st |-> [r1 EXCEPT !.pos = @ + 1],
               out |-> Ok(Xoshiro_next_u64(r.seed, r.pos) * PROB_ONE
                             < probability * (U64_MAX + 1))]

Swap(s, i, j) == [s EXCEPT ![i] = s[j], ![j] = s[i]]

\* rand's Fisher-Yates: for i from len-1 down to 1, swap i with a drawn index
\* of 0..=i; one invocation of the generator per swap (indices from 1 here).
RECURSIVE FisherYates(_, _, _, _)
FisherYates(s, i, seed, pos) ==
    IF i <= 1 THEN s
    ELSE FisherYates(Swap(s, i, 1 + (Xoshiro_next_u64(seed, pos) % i)),
                     i - 1, seed, pos + 1)

\* shuffle: one counted call, len-1 invocations of the generator.
DeterministicRng_shuffle(r, slice) ==
    [st |-> [r EXCEPT !.calls = @ + 1,
                      !.pos = @ + (IF Len(slice) > 1 THEN Len(slice) - 1 ELSE 0)],
     out |-> Ok(FisherYates(slice, Len(slice), r.seed, r.pos))]

\* choose: one counted call; None (modelled as <<>>) for an empty slice,
\* without an invocation of the generator.
DeterministicRng_choose(r, slice) ==
    IF Len(slice) = 0
    THEN [st |-> [r EXCEPT !.calls = @ + 1], out |-> Ok(<<>>)]
    ELSE [st |-> [r EXCEPT !.calls = @ + 1, !.pos = @ + 1],
          out |-> Ok(<<slice[1 + (Xoshiro_next_u64(r.seed, r.pos) % Len(slice))]>>)]

\* A variant of fork that seeds the child with the parent's own seed.
DeterministicRng_fork_same_seed(r) ==
    LET g == DeterministicRng_gen(r) IN
    IF g.out.tag = "panic" THEN [st |-> g.st, child |-> g.st, out |-> Panic]
    ELSE LET c == DeterministicRng_new(r.seed) IN
         [st |-> g.st, child |-> c.st, out |-> c.out]

\* fork: draws new_seed with gen::<u64>() and builds the child with new.
\* st is the parent afterwards, child the generator returned.
DeterministicRng_fork(r) ==
    LET g == DeterministicRng_gen(r) IN
    IF g.out.tag = "panic" THEN [st |-> g.st, child |-> g.st, out |-> Panic]
    ELSE LET c == DeterministicRng_new(g.out.val) IN
         [st |-> g.st, child |-> c.st, out |-> c.out]

\* A variant of reset that zeroes the call count and leaves the wrapped
\* generator where it is.
DeterministicRng_reset_counter_only(r) ==
    [st |-> [r EXCEPT !.calls = 0], out |-> Ok(0)]

\* reset: the wrapped generator is re-seeded with self.seed, calls_count is 0.
DeterministicRng_reset(r) ==
    [st |-> [r EXCEPT !.pos = 0, !.calls = 0], out |-> Ok(0)]

(***************************************************************************)
(* FaultConfig and FaultInjector (fault.rs)                                *)
(***************************************************************************)
\* FAULTS_COUNT_WARNING_MAX (100_000), scaled.
FAULTS_COUNT_WARNING_MAX == 4
\* The probability maybe_corrupt passes to gen_bool: 0.0001.
CORRUPT_PROBABILITY == 1

FaultConfig(fp, dp, dmax, cp, en) ==
    [failure_probability |-> fp, delay_probability |-> dp, delay_ns_max |-> dmax,
     crash_probability |-> cp, enabled |-> en]

\* The presets; the delay bounds (10 ms, 100 ms, 50 ms) are scaled.
FaultConfig_default == FaultConfig(100, 500, 4, 10, TRUE)
FaultConfig_none == FaultConfig(0, 0, 0, 0, FALSE)
FaultConfig_aggressive == FaultConfig(1000, 2000, 8, 100, TRUE)
FaultConfig_delays_only == FaultConfig(0, 2000, 6, 0, TRUE)

\* new: each of the three probabilities is asserted to lie in [0.0, 1.0].
FaultInjector_new(r, config) ==
    LET f == [rng |-> r, config |-> config, faults_injected_count |-> 0,
              delays_injected_count |-> 0, crashes_injected_count |-> 0] IN
    IF ~(config.failure_probability >= 0 /\ config.failure_probability <= PROB_ONE)
    THEN [st |-> f, out |-> Panic]
    ELSE IF ~(config.delay_probability >= 0 /\ config.delay_probability <= PROB_ONE)
    THEN [st |-> f, out |-> Panic]
    ELSE IF ~(config.crash_probability >= 0 /\ config.crash_probability <= PROB_ONE)
    THEN [st |-> f, out |-> Panic]
    ELSE [st |-> f, out |-> Ok(0)]

FaultInjector_with_default_config(r) == FaultInjector_new(r, FaultConfig_default)

\* A variant of should_fail that looks at the enabled flag only after the draw.
FaultInjector_should_fail_draw_first(f) ==
    LET g == DeterministicRng_gen_bool(f.rng, f.config.failure_probability)
        f1 == [f EXCEPT !.rng = g.st] IN
    IF g.out.tag = "panic" THEN [st |-> f1, out |-> Panic]
    ELSE IF ~f.config.enabled THEN [st |-> f1, out |-> Ok(FALSE)]
    ELSE IF g.out.val
    THEN [st |-> [f1 EXCEPT !.faults_injected_count = @ + 1], out |-> Ok(TRUE)]
    ELSE [st |-> f1, out |-> Ok(FALSE)]

\* should_fail: false at once when disabled; else one gen_bool, and on true
\* the fault counter is incremented and asserted below the warning maximum.
FaultInjector_should_fail(f) ==
    IF ~f.config.enabled THEN [st |-> f, out |-> Ok(FALSE)]
    ELSE LET g == DeterministicRng_gen_bool(f.rng, f.config.failure_probability)
             f1 == [f EXCEPT !.rng = g.st] IN
         IF g.out.tag = "panic" THEN [st |-> f1, out |-> Panic]
         ELSE IF g.out.val
         THEN LET f2 == [f1 EXCEPT !.faults_injected_count = @ + 1] IN
              IF ~(f2.faults_injected_count < FAULTS_COUNT_WARNING_MAX)
              THEN [st |-> f2, out |-> Panic]
              ELSE [st |-> f2, out |-> Ok(TRUE)]
         ELSE [st |-> f1, out |-> Ok(FALSE)]

\* A variant of maybe_delay_ns that does not look at the enabled flag.
FaultInjector_maybe_delay_ns_ignoring_enabled(f) ==
    IF f.config.delay_ns_max = 0 THEN [st |-> f, out |-> Ok(<<>>)]
    ELSE LET g == DeterministicRng_gen_bool(f.rng, f.config.delay_probability)
             f1 == [f EXCEPT !.rng = g.st] IN
         IF g.out.tag = "panic" THEN [st |-> f1, out |-> Panic]
         ELSE IF g.out.val
         THEN LET f2 == [f1 EXCEPT !.delays_injected_count = @ + 1]
                  d == DeterministicRng_gen_range(f2.rng, 1, f2.config.delay_ns_max)
                  f3 == [f2 EXCEPT !.rng = d.st] IN
              IF d.out.tag = "panic" THEN [st |-> f3, out |-> Panic]
              ELSE [st |-> f3, out |-> Ok(<<d.out.val>>)]
         ELSE [st |-> f1, out |-> Ok(<<>>)]

\* A variant of maybe_delay_ns that draws the delay from 0..=delay_ns_max and
\* counts only the delays above 1.
FaultInjector_maybe_delay_ns_from_zero(f) ==
    IF ~f.config.enabled \/ f.config.delay_ns_max = 0 THEN [st |-> f, out |-> Ok(<<>>)]
    ELSE LET g == DeterministicRng_gen_bool(f.rng, f.config.delay_probability)
             f1 == [f EXCEPT !.rng = g.st] IN
         IF g.out.tag = "panic" THEN [st |-> f1, out |-> Panic]
         ELSE IF g.out.val
         THEN LET d == DeterministicRng_gen_range(f1.rng, 0, f1.config.delay_ns_max)
                  f2 == [f1 EXCEPT !.rng = d.st] IN
              IF d.out.tag = "panic" THEN [st |-> f2, out |-> Panic]
              ELSE [st |-> IF d.out.val > 1
                           THEN [f2 EXCEPT !.delays_injected_count = @ + 1]
                           ELSE f2,
                    out |-> Ok(<<d.out.val>>)]
         ELSE [st |-> f1, out |-> Ok(<<>>)]

\* maybe_delay_ns: None (<<>>) at once when disabled or delay_ns_max is 0;
\* else one gen_bool, and on true the delay counter is incremented and the
\* delay is drawn with gen_range(1..=delay_ns_max).
FaultInjector_maybe_delay_ns(f) ==
    IF ~f.config.enabled \/ f.config.delay_ns_max = 0 THEN [st |-> f, out |-> Ok(<<>>)]
    ELSE LET g == DeterministicRng_gen_bool(f.rng, f.config.delay_probability)
             f1 == [f EXCEPT !.rng = g.st] IN
         IF g.out.tag = "panic" THEN [st |-> f1, out |-> Panic]
         ELSE IF g.out.val
         THEN LET f2 == [f1 EXCEPT !.delays_injected_count = @ + 1]
                  d == DeterministicRng_gen_range(f2.rng, 1, f2.config.delay_ns_max)
                  f3 == [f2 EXCEPT !.rng = d.st] IN
              IF d.out.tag = "panic" THEN [st |-> f3, out |-> Panic]
              ELSE [st |-> f3, out |-> Ok(<<d.out.val>>)]
         ELSE [st |-> f1, out |-> Ok(<<>>)]

\* A variant of should_crash that counts a crash as a fault as well.
FaultInjector_should_crash_counting_fault(f) ==
    IF ~f.config.enabled THEN [st |-> f, out |-> Ok(FALSE)]
    ELSE LET g == DeterministicRng_gen_bool(f.rng, f.config.crash_probability)
             f1 == [f EXCEPT !.rng = g.st] IN
         IF g.out.tag = "panic" THEN [st |-> f1, out |-> Panic]
         ELSE IF g.out.val
         THEN [st |-> [f1 EXCEPT !.crashes_injected_count = @ + 1,
                                 !.faults_injected_count = @ + 1],
               out |-> Ok(TRUE)]
         ELSE [st |-> f1, out |-> Ok(FALSE)]

\* should_crash: as should_fail, with the crash probability and counter and
\* no warning maximum.
FaultInjector_should_crash(f) ==
    IF ~f.config.enabled THEN [st |-> f, out |-> Ok(FALSE)]
    ELSE LET g == DeterministicRng_gen_bool(f.rng, f.config.crash_probability)
             f1 == [f EXCEPT !.rng = g.st] IN
         IF g.out.tag = "panic" THEN [st |-> f1, out |-> Panic]
         ELSE IF g.out.val
         THEN [st |-> [f1 EXCEPT !.crashes_injected_count = @ + 1], out |-> Ok(TRUE)]
         ELSE [st |-> f1, out |-> Ok(FALSE)]

RECURSIVE Pow2(_)
Pow2(k) == IF k = 0 THEN 1 ELSE 2 * Pow2(k - 1)

\* A variant that sets the bit: byte | (1 << bit_idx)
FlipBit_set(byte, bit_idx) ==
    IF (byte \div Pow2(bit_idx)) % 2 = 1 THEN byte
    ELSE byte + Pow2(bit_idx)

\* byte ^ (1 << bit_idx)
FlipBit(byte, bit_idx) ==
    IF (byte \div Pow2(bit_idx)) % 2 = 1 THEN byte - Pow2(bit_idx)
    ELSE byte + Pow2(bit_idx)

\* maybe_corrupt: false at once when disabled or the buffer is empty; else one
\* gen_bool(0.0001), and on true a byte index and a bit index are drawn with
\* gen_range and that bit is flipped.  The value is the flag and the buffer afterwards.
FaultInjector_maybe_corrupt(f, data) ==
    IF ~f.config.enabled \/ Len(data) = 0 THEN [st |-> f, out |-> Ok([flipped |-> FALSE, data |-> data])]
    ELSE LET g == DeterministicRng_gen_bool(f.rng, CORRUPT_PROBABILITY)
             f1 == [f EXCEPT !.rng = g.st] IN
         IF g.out.tag = "panic" THEN [st |-> f1, out |-> Panic]
         ELSE IF g.out.val
         THEN LET by == DeterministicRng_gen_range(f1.rng, 0, Len(data) - 1)
                  f2 == [f1 EXCEPT !.rng = by.st] IN
              IF by.out.tag = "panic" THEN [st |-> f2, out |-> Panic]
              ELSE LET bi == DeterministicRng_gen_range(f2.rng, 0, 7)
                       f3 == [f2 EXCEPT !.rng = bi.st] IN
                   IF bi.out.tag = "panic" THEN [st |-> f3, out |-> Panic]
                   ELSE [st |-> f3,
                         out |-> Ok([flipped |-> TRUE,
                                     data |-> [data EXCEPT ![by.out.val + 1] =
                                                   FlipBit(@, bi.out.val)]])]
         ELSE [st |-> f1, out |-> Ok([flipped |-> FALSE, data |-> data])]

FaultInjector_stats(f) ==
    [faults_count |-> f.faults_injected_count,
     delays_count |-> f.delays_injected_count,
     crashes_count |-> f.crashes_injected_count]

FaultInjector_config(f) == f.config

\* set_config: the config is replaced; nothing is asserted.
FaultInjector_set_config(f, config) ==
    [st |-> [f EXCEPT !.config = config], out |-> Ok(0)]

FaultInjector_set_enabled(f, enabled) ==
    [st |-> [f EXCEPT !.config.enabled = enabled], out |-> Ok(0)]

(***************************************************************************)
(* Scheduler (scheduler.rs)                                                *)
(***************************************************************************)
\* THREADS_COUNT_MAX (64), scaled.
THREADS_COUNT_MAX == 4
\* DECISIONS_COUNT_WARNING_MAX (10_000_000), scaled.
DECISIONS_COUNT_WARNING_MAX == 4
\* The model stops asking a scheduler after this many counted decisions.
MaxDecisions == 4
\* The yield probability of with_defaults: 0.1.
YIELD_PROBABILITY_DEFAULT == 1000

Continue == [kind |-> "Continue", thread |-> 0]
SwitchTo(t) == [kind |-> "SwitchTo", thread |-> t]

\* new: threads_count in 1..=THREADS_COUNT_MAX and the yield probability in
\* [0.0, 1.0] are asserted.
Scheduler_new(r, threads_count, yield_probability) ==
    LET s == [rng |-> r, threads_count |-> threads_count, current_thread |-> 0,
              yield_probability |-> yield_probability, decisions_count |-> 0] IN
    IF ~(threads_count > 0) THEN [st |-> s, out |-> Panic]
    ELSE IF ~(threads_count <= THREADS_COUNT_MAX) THEN [st |-> s, out |-> Panic]
    ELSE IF ~(0 <= yield_probability /\ yield_probability <= PROB_ONE)
    THEN [st |-> s, out |-> Panic]
    ELSE [st |-> s, out |-> Ok(0)]

Scheduler_with_defaults(r, threads_count) ==
    Scheduler_new(r, threads_count, YIELD_PROBABILITY_DEFAULT)

Scheduler_current_thread(s) == s.current_thread
Scheduler_threads_count(s) == s.threads_count
Scheduler_decisions_count(s) == s.decisions_count

\* A variant of pick_other_thread that takes the first candidate drawn.
Scheduler_pick_any_thread(s) ==
    LET c == DeterministicRng_gen_range(s.rng, 0, s.threads_count - 1)
        s1 == [s EXCEPT !.rng = c.st] IN
    IF c.out.tag = "panic" THEN [st |-> s1, out |-> Panic]
    ELSE [st |-> s1, out |-> Ok(c.out.val)]

\* pick_other_thread: threads_count > 1 is asserted; candidates are drawn with
\* gen_range(0..threads_count) until one differs from current_thread.
RECURSIVE Scheduler_pick_other_thread(_)
Scheduler_pick_other_thread(s) ==
    IF ~(s.threads_count > 1) THEN [st |-> s, out |-> Panic]
    ELSE LET c == DeterministicRng_gen_range(s.rng, 0, s.threads_count - 1)
             s1 == [s EXCEPT !.rng = c.st] IN
         IF c.out.tag = "panic" THEN [st |-> s1, out |-> Panic]
         ELSE IF c.out.val # s.current_thread THEN [st |-> s1, out |-> Ok(c.out.val)]
         ELSE Scheduler_pick_other_thread(s1)

\* A variant of decide that answers with a switch to the current thread
\* when there is one thread.
Scheduler_decide_switch_to_self(s) ==
    LET s1 == [s EXCEPT !.decisions_count = @ + 1] IN
    IF ~(s1.decisions_count < DECISIONS_COUNT_WARNING_MAX) THEN [st |-> s1, out |-> Panic]
    ELSE IF s1.threads_count = 1
    THEN [st |-> s1, out |-> Ok(SwitchTo(s1.current_thread))]
    ELSE LET g == DeterministicRng_gen_bool(s1.rng, s1.yield_probability)
             s2 == [s1 EXCEPT !.rng = g.st] IN
         IF g.out.tag = "panic" THEN [st |-> s2, out |-> Panic]
         ELSE IF g.out.val
         THEN LET o == Scheduler_pick_other_thread(s2) IN
              IF o.out.tag = "panic" THEN [st |-> o.st, out |-> Panic]
              ELSE [st |-> [o.st EXCEPT !.current_thread = o.out.val],
                    out |-> Ok(SwitchTo(o.out.val))]
         ELSE [st |-> s2, out |-> Ok(Continue)]

\* decide: the decision is counted and the count asserted below the warning
\* maximum; Continue with one thread; else gen_bool(yield_probability) decides
\* between a switch to pick_other_thread() and Continue.
Scheduler_decide(s) ==
    LET s1 == [s EXCEPT !.decisions_count = @ + 1] IN
    IF ~(s1.decisions_count < DECISIONS_COUNT_WARNING_MAX) THEN [st |-> s1, out |-> Panic]
    ELSE IF s1.threads_count = 1 THEN [st |-> s1, out |-> Ok(Continue)]
    ELSE LET g == DeterministicRng_gen_bool(s1.rng, s1.yield_probability)
             s2 == [s1 EXCEPT !.rng = g.st] IN
         IF g.out.tag = "panic" THEN [st |-> s2, out |-> Panic]
         ELSE IF g.out.val
         THEN LET o == Scheduler_pick_other_thread(s2) IN
              IF o.out.tag = "panic" THEN [st |-> o.st, out |-> Panic]
              ELSE [st |-> [o.st EXCEPT !.current_thread = o.out.val],
                    out |-> Ok(SwitchTo(o.out.val))]
         ELSE [st |-> s2, out |-> Ok(Continue)]

\* force_switch: the decision is counted; 0 with one thread; else a switch to
\* pick_other_thread().
Scheduler_force_switch(s) ==
    LET s1 == [s EXCEPT !.decisions_count = @ + 1] IN
    IF s1.threads_count = 1 THEN [st |-> s1, out |-> Ok(0)]
    ELSE LET o == Scheduler_pick_other_thread(s1) IN
         IF o.out.tag = "panic" THEN [st |-> o.st, out |-> Panic]
         ELSE [st |-> [o.st EXCEPT !.current_thread = o.out.val], out |-> Ok(o.out.val)]

\* set_current_thread: thread < threads_count is asserted.
Scheduler_set_current_thread(s, thread) ==
    IF ~(thread < s.threads_count) THEN [st |-> s, out |-> Panic]
    ELSE [st |-> [s EXCEPT !.current_thread = thread], out |-> Ok(0)]

\* add_thread: threads_count < THREADS_COUNT_MAX is asserted; the new index is
\* the old count.
Scheduler_add_thread(s) ==
    IF ~(s.threads_count < THREADS_COUNT_MAX) THEN [st |-> s, out |-> Panic]
    ELSE [st |-> [s EXCEPT !.threads_count = @ + 1], out |-> Ok(s.threads_count)]

\* A variant of remove_thread that leaves current_thread alone.
Scheduler_remove_thread_no_adjust(s, thread) ==
    IF ~(thread < s.threads_count) THEN [st |-> s, out |-> Panic]
    ELSE IF ~(s.threads_count > 1) THEN [st |-> s, out |-> Panic]
    ELSE [st |-> [s EXCEPT !.threads_count = @ - 1], out |-> Ok(0)]

\* A variant of remove_thread that falls back to thread 0 whenever the
\* current thread is the one removed.
Scheduler_remove_thread_to_zero(s, thread) ==
    IF ~(thread < s.threads_count) THEN [st |-> s, out |-> Panic]
    ELSE IF ~(s.threads_count > 1) THEN [st |-> s, out |-> Panic]
    ELSE LET s1 == [s EXCEPT !.threads_count = @ - 1] IN
         IF s1.current_thread = thread
         THEN [st |-> [s1 EXCEPT !.current_thread = 0], out |-> Ok(0)]
         ELSE IF s1.current_thread > thread
         THEN [st |-> [s1 EXCEPT !.current_thread = @ - 1], out |-> Ok(0)]
         ELSE [st |-> s1, out |-> Ok(0)]

\* remove_thread: thread < threads_count and threads_count > 1 are asserted;
\* the count drops by one and current_thread is adjusted.
Scheduler_remove_thread(s, thread) ==
    IF ~(thread < s.threads_count) THEN [st |-> s, out |-> Panic]
    ELSE IF ~(s.threads_count > 1) THEN [st |-> s, out |-> Panic]
    ELSE LET s1 == [s EXCEPT !.threads_count = @ - 1] IN
         IF s1.current_thread = thread
         THEN [st |-> [s1 EXCEPT !.current_thread = IF thread > 0 THEN thread - 1 ELSE 0],
               out |-> Ok(0)]
         ELSE IF s1.current_thread > thread
         THEN [st |-> [s1 EXCEPT !.current_thread = @ - 1], out |-> Ok(0)]
         ELSE [st |-> s1, out |-> Ok(0)]

\* yield_point(scheduler) is scheduler.decide().
yield_point(s) == Scheduler_decide(s)

(***************************************************************************)
(* DstEnv (env.rs)                                                         *)
(***************************************************************************)
None == <<>>
Some(x) == <<x>>

\* The record a constructor leaves when it panics part-way: no environment.
NoEnv == [seed |-> 0, clock |-> SimClock_new, rng |-> DeterministicRng_new(0).st,
          fault |-> FaultInjector_new(DeterministicRng_new(0).st, FaultConfig_none).st,
          scheduler |-> None]

\* The first n values of a master generator seeded with seed, in order, or
\* <<>> when one of the calls panics.
RECURSIVE MasterDraws(_, _)
MasterDraws(master, n) ==
    IF n = 0 THEN [out |-> Ok(<<>>)]
    ELSE LET g == DeterministicRng_gen(master) IN
         IF g.out.tag = "panic" THEN [out |-> Panic]
         ELSE LET rest == MasterDraws(g.st, n - 1) IN
              IF rest.out.tag = "panic" THEN [out |-> Panic]
              ELSE [out |-> Ok(<<g.out.val>> \o rest.out.val)]

\* new: seed != 0 is asserted; rng_seed and fault_seed are drawn from the
\* master generator in this order; the fault injector has the default config.
DstEnv_new(seed) ==
    IF seed = 0 THEN [st |-> NoEnv, out |-> Panic]
    ELSE LET master == DeterministicRng_new(seed)
             seeds == MasterDraws(master.st, 2) IN
         IF master.out.tag = "panic" \/ seeds.out.tag = "panic"
         THEN [st |-> NoEnv, out |-> Panic]
         ELSE LET r == DeterministicRng_new(seeds.out.val[1])
                  fr == DeterministicRng_new(seeds.out.val[2])
                  f == FaultInjector_with_default_config(fr.st) IN
              IF r.out.tag = "panic" \/ fr.out.tag = "panic" \/ f.out.tag = "panic"
              THEN [st |-> NoEnv, out |-> Panic]
              ELSE [st |-> [seed |-> seed, clock |-> SimClock_new, rng |-> r.st,
                            fault |-> f.st, scheduler |-> None],
                    out |-> Ok(0)]

\* with_fault_config: as new, with the given config.
DstEnv_with_fault_config(seed, fault_config) ==
    IF seed = 0 THEN [st |-> NoEnv, out |-> Panic]
    ELSE LET master == DeterministicRng_new(seed)
             seeds == MasterDraws(master.st, 2) IN
         IF master.out.tag = "panic" \/ seeds.out.tag = "panic"
         THEN [st |-> NoEnv, out |-> Panic]
         ELSE LET r == DeterministicRng_new(seeds.out.val[1])
                  fr == DeterministicRng_new(seeds.out.val[2])
                  f == FaultInjector_new(fr.st, fault_config) IN
              IF r.out.tag = "panic" \/ fr.out.tag = "panic" \/ f.out.tag = "panic"
              THEN [st |-> NoEnv, out |-> Panic]
              ELSE [st |-> [seed |-> seed, clock |-> SimClock_new, rng |-> r.st,
                            fault |-> f.st, scheduler |-> None],
                    out |-> Ok(0)]

\* A variant of with_scheduler that draws the scheduler's seed first.
DstEnv_with_scheduler_sched_first(seed, threads_count) ==
    IF seed = 0 THEN [st |-> NoEnv, out |-> Panic]
    ELSE IF ~(threads_count > 0) THEN [st |-> NoEnv, out |-> Panic]
    ELSE LET master == DeterministicRng_new(seed)
             seeds == MasterDraws(master.st, 3) IN
         IF master.out.tag = "panic" \/ seeds.out.tag = "panic"
         THEN [st |-> NoEnv, out |-> Panic]
         ELSE LET sr == DeterministicRng_new(seeds.out.val[1])
                  sc == Scheduler_with_defaults(sr.st, threads_count)
                  r == DeterministicRng_new(seeds.out.val[2])
                  fr == DeterministicRng_new(seeds.out.val[3])
                  f == FaultInjector_with_default_config(fr.st) IN
              IF \/ r.out.tag = "panic" \/ fr.out.tag = "panic" \/ f.out.tag = "panic"
                 \/ sr.out.tag = "panic" \/ sc.out.tag = "panic"
              THEN [st |-> NoEnv, out |-> Panic]
              ELSE [st |-> [seed |-> seed, clock |-> SimClock_new, rng |-> r.st,
                            fault |-> f.st, scheduler |-> Some(sc.st)],
                    out |-> Ok(0)]

\* with_scheduler: seed != 0 and threads_count > 0 are asserted; rng_seed,
\* fault_seed and sched_seed are drawn in this order; the scheduler has the
\* default yield probability.
DstEnv_with_scheduler(seed, threads_count) ==
    IF seed = 0 THEN [st |-> NoEnv, out |-> Panic]
    ELSE IF ~(threads_count > 0) THEN [st |-> NoEnv, out |-> Panic]
    ELSE LET master == DeterministicRng_new(seed)
             seeds == MasterDraws(master.st, 3) IN
         IF master.out.tag = "panic" \/ seeds.out.tag = "panic"
         THEN [st |-> NoEnv, out |-> Panic]
         ELSE LET r == DeterministicRng_new(seeds.out.val[1])
                  fr == DeterministicRng_new(seeds.out.val[2])
                  f == FaultInjector_with_default_config(fr.st)
                  sr == DeterministicRng_new(seeds.out.val[3])
                  sc == Scheduler_with_defaults(sr.st, threads_count) IN
              IF \/ r.out.tag = "panic" \/ fr.out.tag = "panic" \/ f.out.tag = "panic"
                 \/ sr.out.tag = "panic" \/ sc.out.tag = "panic"
              THEN [st |-> NoEnv, out |-> Panic]
              ELSE [st |-> [seed |-> seed, clock |-> SimClock_new, rng |-> r.st,
                            fault |-> f.st, scheduler |-> Some(sc.st)],
                    out |-> Ok(0)]

DstEnv_seed(e) == e.seed

\* fork_rng: self.rng.fork().
DstEnv_fork_rng(e) ==
    LET r == DeterministicRng_fork(e.rng) IN
    [st |-> [e EXCEPT !.rng = r.st], child |-> r.child, out |-> r.out]

\* A variant of maybe_delay that advances the clock by delay_ns_max whenever
\* a delay is injected.
DstEnv_maybe_delay_by_max(e) ==
    LET d == FaultInjector_maybe_delay_ns(e.fault)
        e1 == [e EXCEPT !.fault = d.st] IN
    IF d.out.tag = "panic" THEN [st |-> e1, out |-> Panic]
    ELSE IF d.out.val # None
    THEN LET c == SimClock_advance_ns(e1.clock, e1.fault.config.delay_ns_max) IN
         [st |-> [e1 EXCEPT !.clock = c.st], out |-> c.out]
    ELSE [st |-> e1, out |-> Ok(0)]

\* maybe_delay: the clock is advanced by the delay the fault injector returns,
\* if it returns one.
DstEnv_maybe_delay(e) ==
    LET d == FaultInjector_maybe_delay_ns(e.fault)
        e1 == [e EXCEPT !.fault = d.st] IN
    IF d.out.tag = "panic" THEN [st |-> e1, out |-> Panic]
    ELSE IF d.out.val # None
    THEN LET c == SimClock_advance_ns(e1.clock, d.out.val[1]) IN
         [st |-> [e1 EXCEPT !.clock = c.st], out |-> c.out]
    ELSE [st |-> e1, out |-> Ok(0)]

\* A variant of step that asks the fault injector first and advances the
\* clock afterwards.
DstEnv_step_fault_first(e, duration_ns) ==
    LET f == FaultInjector_should_fail(e.fault)
        e1 == [e EXCEPT !.fault = f.st] IN
    IF f.out.tag = "panic" THEN [st |-> e1, out |-> Panic]
    ELSE LET c == SimClock_advance_ns(e1.clock, duration_ns) IN
         IF c.out.tag = "panic" THEN [st |-> e1, out |-> Panic]
         ELSE [st |-> [e1 EXCEPT !.clock = c.st], out |-> f.out]

\* step: the clock is advanced, then the fault injector is asked.
DstEnv_step(e, duration_ns) ==
    LET c == SimClock_advance_ns(e.clock, duration_ns)
        e1 == [e EXCEPT !.clock = c.st] IN
    IF c.out.tag = "panic" THEN [st |-> e1, out |-> Panic]
    ELSE LET f == FaultInjector_should_fail(e1.fault) IN
         [st |-> [e1 EXCEPT !.fault = f.st], out |-> f.out]

\* stats: the seed, the time, the counted calls of the rng component, the
\* fault and delay counters, and the scheduler's decisions (0 without one).
DstEnv_stats(e) ==
    [seed |-> e.seed,
     elapsed_ns |-> SimClock_now_ns(e.clock),
     rng_calls |-> DeterministicRng_calls_count(e.rng),
     faults_injected |-> FaultInjector_stats(e.fault).faults_count,
     delays_injected |-> FaultInjector_stats(e.fault).delays_count,
     scheduler_decisions |->
         IF e.scheduler = None THEN 0
         ELSE Scheduler_decisions_count(e.scheduler[1])]

(***************************************************************************)
(* PropertyResult, PropertyChecker (property.rs)                           *)
(***************************************************************************)
\* Counterexample and StateSnapshot (crate::counterexample), as the system's
\* description gives them: an optional seed and the snapshots in order.
Counterexample_new == [seed |-> None, states |-> <<>>]
Counterexample_with_seed(seed) == [seed |-> Some(seed), states |-> <<>>]
Counterexample_add_state(ce, snapshot) ==
    [ce EXCEPT !.states = Append(@, snapshot)]

\* pass: a non-empty name, a non-empty spec and a positive line are asserted.
PropertyResult_pass(name, tla_spec, tla_line) ==
    IF name = "" \/ tla_spec = "" \/ ~(tla_line > 0) THEN Panic
    ELSE Ok([name |-> name, holds |-> TRUE, violation |-> None,
             tla_spec |-> tla_spec, tla_line |-> tla_line,
             counterexample |-> None])

\* fail: as pass, and a non-empty violation text is asserted.  A violation
\* text is its format string and the values it is filled with.
PropertyResult_fail(name, tla_spec, tla_line, violation, counterexample) ==
    IF name = "" \/ tla_spec = "" \/ ~(tla_line > 0) THEN Panic
    ELSE IF violation.text = "" THEN Panic
    ELSE Ok([name |-> name, holds |-> FALSE, violation |-> Some(violation),
             tla_spec |-> tla_spec, tla_line |-> tla_line,
             counterexample |-> counterexample])

Err(r) == [tag |-> "err", val |-> r]

\* A variant of verify_all that goes through all the results and returns the
\* last failure.
RECURSIVE PropertyChecker_verify_all_last(_)
PropertyChecker_verify_all_last(results) ==
    IF results = <<>> THEN Ok(0)
    ELSE IF ~results[Len(results)].holds THEN Err(results[Len(results)])
    ELSE PropertyChecker_verify_all_last(SubSeq(results, 1, Len(results) - 1))

\* verify_all, given what its call of check_all returned: the results are
\* gone through in order and the first that does not hold is returned.
RECURSIVE PropertyChecker_verify_all(_)
PropertyChecker_verify_all(results) ==
    IF results = <<>> THEN Ok(0)
    ELSE IF ~Head(results).holds THEN Err(Head(results))
    ELSE PropertyChecker_verify_all(Tail(results))

\* all_hold, given what its call of check_all returned.
PropertyChecker_all_hold(results) ==
    \A i \in 1..Len(results) : results[i].holds

\* format_status: the name is asserted non-empty; the line is its status
\* word, the name, the spec locator and, for a failure, the violation text
\* ("unknown" when the result has none).
PropertyResult_format_status(r) ==
    IF r.name = "" THEN Panic
    ELSE IF r.holds
    THEN Ok([status |-> "[PASS]", name |-> r.name, tla_spec |-> r.tla_spec,
             tla_line |-> r.tla_line, violation |-> None])
    ELSE Ok([status |-> "[FAIL]", name |-> r.name, tla_spec |-> r.tla_spec,
             tla_line |-> r.tla_line,
             violation |-> IF r.violation # None THEN Some(r.violation[1].text)
                           ELSE Some("unknown")])

\* summary, given what its call of check_all returned: the counts of the
\* results that hold and that do not, and their number; the two counts are
\* asserted to add up.
PropertyChecker_summary(results) ==
    LET passed == Cardinality({i \in 1..Len(results) : results[i].holds})
        failed == Cardinality({i \in 1..Len(results) : ~results[i].holds})
        total == Len(results) IN
    IF passed + failed # total THEN Panic
    ELSE Ok([passed |-> passed, failed |-> failed, total |-> total,
             results |-> results])

\* The diagram of a counterexample: a line for the seed when there is one,
\* then one box per snapshot, in order.
Counterexample_render_diagram(ce) ==
    [seed_line |-> ce.seed,
     boxes |-> [i \in 1..Len(ce.states) |->
                   [step |-> ce.states[i].step,
                    description |-> ce.states[i].description]]]

\* The index of the first result that does not hold (0 when all hold).
FirstFailure(results) ==
    IF \A i \in 1..Len(results) : results[i].holds THEN 0
    ELSE CHOOSE i \in 1..Len(results) :
            ~results[i].holds /\ \A j \in 1..(i - 1) : results[j].holds

\* The index of the first failing result that carries a counterexample
\* (0 when none does).
FirstFailureWithCounterexample(results) ==
    LET withCe == {i \in 1..Len(results) :
                      ~results[i].holds /\ results[i].counterexample # None} IN
    IF withCe = {} THEN 0
    ELSE CHOOSE i \in withCe : \A j \in withCe : i <= j

\* The parts of a report: the header's two counts, one status line per
\* result, and the diagram of the result at index shown, if it carries one.
Report(s, shown) ==
    LET lines == [i \in 1..Len(s.results) |->
                     PropertyResult_format_status(s.results[i])] IN
    IF \E i \in 1..Len(lines) : lines[i].tag = "panic" THEN Panic
    ELSE Ok([header |-> [passed |-> s.passed, total |-> s.total],
             lines |-> [i \in 1..Len(lines) |-> lines[i].val],
             counterexample |->
                 IF shown # 0 /\ s.results[shown].counterexample # None
                 THEN Some(Counterexample_render_diagram(
                               s.results[shown].counterexample[1]))
                 ELSE None])

\* A variant of format_report that looks for a failure with a counterexample
\* among all the failures.
PropertySummary_format_report_any_failure(s) ==
    Report(s, FirstFailureWithCounterexample(s.results))

\* format_report: find() stops at the first result that does not hold, and
\* the diagram is added only if that result carries a counterexample.
PropertySummary_format_report(s) ==
    Report(s, FirstFailure(s.results))

(***************************************************************************)
(* StackHistory, StackPropertyChecker, TestStack (invariants/stack.rs)     *)
(***************************************************************************)
TLA_SPEC == "treiber_stack.tla"

StackHistory_new == [operations |-> <<>>]

\* record_push: step > 0 is asserted.
StackHistory_record_push(h, thread_id, element, step) ==
    IF ~(step > 0) THEN [st |-> h, out |-> Panic]
    ELSE [st |-> [h EXCEPT !.operations =
                     Append(@, [thread_id |-> thread_id, op_type |-> "Push",
                                element |-> Some(element), step |-> step])],
          out |-> Ok(0)]

\* record_pop: step > 0 is asserted; the type is Pop with an element and
\* PopEmpty without.
StackHistory_record_pop(h, thread_id, element, step) ==
    IF ~(step > 0) THEN [st |-> h, out |-> Panic]
    ELSE [st |-> [h EXCEPT !.operations =
                     Append(@, [thread_id |-> thread_id,
                                op_type |-> IF element # None THEN "Pop" ELSE "PopEmpty",
                                element |-> element, step |-> step])],
          out |-> Ok(0)]

StackPropertyChecker_new == [dst_seed |-> None]

\* with_seed: seed != 0 is asserted.
StackPropertyChecker_with_seed(c, seed) ==
    IF seed = 0 THEN [st |-> c, out |-> Panic]
    ELSE [st |-> [c EXCEPT !.dst_seed = Some(seed)], out |-> Ok(0)]

RECURSIVE SeqToSet(_)
SeqToSet(q) == IF q = <<>> THEN {} ELSE {Head(q)} \cup SeqToSet(Tail(q))

\* A variant of the loop condition that does not look at the popped set.
LostElements_ignoring_popped(s) ==
    {e \in s.pushed : e \notin SeqToSet(s.contents)}

\* The pushed elements that are neither in the contents nor popped.
LostElements(s) ==
    {e \in s.pushed : e \notin SeqToSet(s.contents) /\ e \notin s.popped}

\* check_no_lost_elements: the pushed set is gone through in the order of
\* its hash table, and the first lost element met is reported; first is that
\* element (any lost element can be the first).
StackPropertyChecker_check_no_lost_elements(s, c, first) ==
    IF LostElements(s) # {}
    THEN LET ce0 == IF c.dst_seed # None THEN Counterexample_with_seed(c.dst_seed[1])
                    ELSE Counterexample_new
             ce == Counterexample_add_state(ce0,
                       [step |-> 1,
                        description |-> [text |-> "Element {} lost", element |-> first],
                        variables |-> <<[name |-> "pushed", value |-> s.pushed],
                                        [name |-> "popped", value |-> s.popped],
                                        [name |-> "contents",
                                         value |-> SeqToSet(s.contents)]>>]) IN
         PropertyResult_fail("NoLostElements", TLA_SPEC, 45,
             [text |-> "Element {} was pushed but is neither in stack nor popped",
              element |-> first, expected |-> None],
             Some(ce))
    ELSE PropertyResult_pass("NoLostElements", TLA_SPEC, 45)

\* The first position of the contents whose element occurred before it.
RECURSIVE FirstDuplicate(_, _)
FirstDuplicate(contents, i) ==
    IF i > Len(contents) THEN None
    ELSE IF contents[i] \in SeqToSet(SubSeq(contents, 1, i - 1)) THEN Some(contents[i])
    ELSE FirstDuplicate(contents, i + 1)

\* A variant of check_no_duplicates that asserts there is no duplicate.
StackPropertyChecker_check_no_duplicates_asserting(s) ==
    IF Len(s.contents) # Cardinality(SeqToSet(s.contents)) THEN Panic
    ELSE PropertyResult_pass("NoDuplicates", TLA_SPEC, 58)

\* A variant of check_no_duplicates that compares the length of the contents
\* with the size of the pushed set.
StackPropertyChecker_check_no_duplicates_against_pushed(s) ==
    IF Len(s.contents) # Cardinality(s.pushed)
       /\ FirstDuplicate(s.contents, 1) # None
    THEN PropertyResult_fail("NoDuplicates", TLA_SPEC, 58,
             [text |-> "Element {} appears multiple times in stack",
              element |-> FirstDuplicate(s.contents, 1)[1], expected |-> None],
             None)
    ELSE PropertyResult_pass("NoDuplicates", TLA_SPEC, 58)

\* check_no_duplicates: when the contents are longer than their set, the
\* first element that was seen before is reported.
StackPropertyChecker_check_no_duplicates(s) ==
    IF Len(s.contents) # Cardinality(SeqToSet(s.contents))
       /\ FirstDuplicate(s.contents, 1) # None
    THEN PropertyResult_fail("NoDuplicates", TLA_SPEC, 58,
             [text |-> "Element {} appears multiple times in stack",
              element |-> FirstDuplicate(s.contents, 1)[1], expected |-> None],
             None)
    ELSE PropertyResult_pass("NoDuplicates", TLA_SPEC, 58)

\* The loop of check_lifo_order from operation i on, with the model stack
\* built so far.
RECURSIVE LifoReplay(_, _, _)
LifoReplay(operations, i, model_stack) ==
    IF i > Len(operations) THEN PropertyResult_pass("LIFO_Order", TLA_SPEC, 72)
    ELSE LET op == operations[i] IN
         IF op.op_type = "Push"
         THEN LifoReplay(operations, i + 1,
                         IF op.element # None THEN Append(model_stack, op.element[1])
                         ELSE model_stack)
         ELSE IF op.op_type = "Pop" /\ op.element # None /\ model_stack # <<>>
         THEN LET actual == model_stack[Len(model_stack)]
                  expected == op.element[1] IN
              IF actual # expected
              THEN PropertyResult_fail("LIFO_Order", TLA_SPEC, 72,
                       [text |-> "Pop returned {} but LIFO expected {}",
                        element |-> expected, expected |-> Some(actual)],
                       None)
              ELSE LifoReplay(operations, i + 1,
                              SubSeq(model_stack, 1, Len(model_stack) - 1))
         ELSE LifoReplay(operations, i + 1, model_stack)

StackPropertyChecker_check_lifo_order(s) ==
    LifoReplay(s.history.operations, 1, <<>>)

StackPropertyChecker_check_linearizability(s) ==
    PropertyResult_pass("Linearizability", TLA_SPEC, 89)

StackPropertyChecker_check_aba_safety(s) ==
    PropertyResult_pass("ABA_Safety", TLA_SPEC, 103)

\* check_all: the five checks in this order; a check that panics leaves no
\* vector.
StackPropertyChecker_check_all(s, c, first) ==
    LET rs == <<StackPropertyChecker_check_no_lost_elements(s, c, first),
                StackPropertyChecker_check_no_duplicates(s),
                StackPropertyChecker_check_lifo_order(s),
                StackPropertyChecker_check_linearizability(s),
                StackPropertyChecker_check_aba_safety(s)>> IN
    IF \E i \in 1..Len(rs) : rs[i].tag = "panic" THEN Panic
    ELSE Ok([i \in 1..Len(rs) |-> rs[i].val])

TestStack_new ==
    [pushed |-> {}, popped |-> {}, contents |-> <<>>, history |-> StackHistory_new]

TestStack_push(s, val) ==
    LET h == StackHistory_record_push(s.history, 0, val,
                                      Len(s.history.operations) + 1) IN
    [st |-> [s EXCEPT !.pushed = @ \cup {val},
                      !.contents = Append(@, val),
                      !.history = h.st],
     out |-> h.out]

\* A variant of pop that does not enter the value in the popped set.
TestStack_pop_not_entered(s) ==
    LET val == IF s.contents = <<>> THEN None
               ELSE Some(s.contents[Len(s.contents)])
        h == StackHistory_record_pop(s.history, 0, val,
                                     Len(s.history.operations) + 1) IN
    [st |-> [s EXCEPT !.contents = IF @ = <<>> THEN @ ELSE SubSeq(@, 1, Len(@) - 1),
                      !.history = h.st],
     out |-> IF h.out.tag = "panic" THEN Panic ELSE Ok(val)]

TestStack_pop(s) ==
    LET val == IF s.contents = <<>> THEN None
               ELSE Some(s.contents[Len(s.contents)])
        h == StackHistory_record_pop(s.history, 0, val,
                                     Len(s.history.operations) + 1) IN
    [st |-> [s EXCEPT !.contents = IF @ = <<>> THEN @ ELSE SubSeq(@, 1, Len(@) - 1),
                      !.popped = IF val # None THEN @ \cup {val[1]} ELSE @,
                      !.history = h.st],
     out |-> IF h.out.tag = "panic" THEN Panic ELSE Ok(val)]

(***************************************************************************)
(* Specification SpecClock: one SimClock and every sequence of its calls   *)
(***************************************************************************)
\* A variable a specification does not use holds Unused throughout.
Unused == <<>>

\* Start times offered to with_start_time_ns.
ClockStarts == {1, TIME_NS_MAX - 1, TIME_NS_MAX, TIME_NS_MAX + 1}
\* Deltas and durations offered to the clock's calls.
ClockDeltas == U64

ClockInit ==
    /\ clock \in {SimClock_new} \cup
                 {SimClock_with_start_time_ns(s).st : s \in ClockStarts}
    /\ rng = Unused /\ forked = Unused /\ fault = Unused /\ sched = Unused
    /\ env = Unused /\ env2 = Unused /\ pending = Unused
    /\ stack = Unused /\ checker = Unused
    /\ check_all_results = Unused /\ summary = Unused /\ advancing = Unused
    /\ treiber = Unused /\ ssi = Unused /\ raft = Unused /\ picking = Unused
    /\ last = NoCall

ClockFrame ==
    UNCHANGED <<rng, forked, fault, sched, env, env2, pending, stack, checker,
                check_all_results, summary, advancing,
                treiber, ssi, raft, picking>>

Clk_now_ns ==
    /\ last' = CallInt("now_ns", NoV, Ok(SimClock_now_ns(clock)))
    /\ UNCHANGED clock /\ ClockFrame

Clk_now_us ==
    /\ last' = CallInt("now_us", NoV, Ok(SimClock_now_us(clock)))
    /\ UNCHANGED clock /\ ClockFrame

Clk_now_ms ==
    /\ last' = CallInt("now_ms", NoV, Ok(SimClock_now_ms(clock)))
    /\ UNCHANGED clock /\ ClockFrame

Clk_advance_ns ==
    \E d \in ClockDeltas :
        LET r == SimClock_advance_ns(clock, d) IN
        /\ clock' = r.st /\ last' = CallUnit("advance_ns", IntV(d), r.out) /\ ClockFrame

Clk_advance_us ==
    \E d \in ClockDeltas :
        LET r == SimClock_advance_us(clock, d) IN
        /\ clock' = r.st /\ last' = CallUnit("advance_us", IntV(d), r.out) /\ ClockFrame

Clk_advance_ms ==
    \E d \in ClockDeltas :
        LET r == SimClock_advance_ms(clock, d) IN
        /\ clock' = r.st /\ last' = CallUnit("advance_ms", IntV(d), r.out) /\ ClockFrame

Clk_sleep_ns ==
    \E d \in ClockDeltas :
        LET r == SimClock_sleep_ns(clock, d) IN
        /\ clock' = r.st /\ last' = CallUnit("sleep_ns", IntV(d), r.out) /\ ClockFrame

Clk_sleep_ms ==
    \E d \in ClockDeltas :
        LET r == SimClock_sleep_ms(clock, d) IN
        /\ clock' = r.st /\ last' = CallUnit("sleep_ms", IntV(d), r.out) /\ ClockFrame

Clk_reset ==
    LET r == SimClock_reset(clock) IN
    /\ clock' = r.st /\ last' = CallUnit("reset", NoV, r.out) /\ ClockFrame

ClockNext ==
    \/ Clk_now_ns \/ Clk_now_us \/ Clk_now_ms
    \/ Clk_advance_ns \/ Clk_advance_us \/ Clk_advance_ms
    \/ Clk_sleep_ns \/ Clk_sleep_ms \/ Clk_reset

SpecClock == ClockInit /\ [][ClockNext]_vars

\* C3: over any sequence of SimClock calls the time never decreases, except
\* that reset() sets it to exactly 0.
C3_ClockNeverDecreases ==
    [][ IF last'.op = "reset" THEN clock' = 0 ELSE clock' >= clock ]_vars

\* C3 witness: the clock has been advanced right up to the reserved bound.
C3_Witness ==
    /\ last.op \in {"advance_ns", "advance_us", "advance_ms", "sleep_ns", "sleep_ms"}
    /\ last.tag = "ok" /\ last.arg.int > 0 /\ clock = TIME_NS_MAX

\* The nanoseconds an accepted advance of the given kind adds for argument d.
AdvanceDelta(op, d) ==
    CASE op = "advance_ns" -> d
      [] op = "advance_us" -> d * NS_PER_US
      [] op = "advance_ms" -> d * NS_PER_MS

\* C4: an advance by d > 0 that stays within TIME_NS_MAX adds exactly the
\* converted delta; a zero advance and an advance past the bound are rejected
\* and leave the time alone; the time never exceeds TIME_NS_MAX.
C4_AdvanceExactOrRejected ==
    /\ [](clock <= TIME_NS_MAX)
    /\ [][ last'.op \in {"advance_ns", "advance_us", "advance_ms"} =>
             IF /\ last'.arg.int > 0
                /\ clock + AdvanceDelta(last'.op, last'.arg.int) <= TIME_NS_MAX
             THEN /\ last'.tag = "ok"
                  /\ clock' = clock + AdvanceDelta(last'.op, last'.arg.int)
             ELSE last'.tag = "panic" /\ clock' = clock ]_vars

\* C4 witness: an accepted advance_ms on a clock that was not at zero.
C4_Witness ==
    /\ last.op = "advance_ms" /\ last.tag = "ok"
    /\ clock > last.arg.int * NS_PER_MS

(***************************************************************************)
(* Specification SpecRng: one DeterministicRng, the generators forked from *)
(* it, and every sequence of their calls                                   *)
(***************************************************************************)
\* At most this many generators are forked.
MaxForks == 1
\* A forked generator is drawn from at most this many times.
MaxChildCalls == 1

\* Arguments offered to the calls: ranges low..=high (one of them empty),
\* probabilities (two of them outside [0.0, 1.0]) and slices.
GenRanges == {<<0, 0>>, <<0, 3>>, <<1, 4>>, <<2, 1>>}
Probabilities == {-1, 0, 5000, PROB_ONE, PROB_ONE + 1}
Slices == {[i \in 1..n |-> i] : n \in 0..MaxSlice}

RngInit ==
    /\ rng \in {r.st : r \in {c \in {DeterministicRng_new(s) : s \in 0..MaxSeed} :
                                    c.out.tag = "ok"}}
    /\ forked = <<>>
    /\ clock = Unused /\ fault = Unused /\ sched = Unused
    /\ env = Unused /\ env2 = Unused /\ pending = Unused
    /\ stack = Unused /\ checker = Unused
    /\ check_all_results = Unused /\ summary = Unused /\ advancing = Unused
    /\ treiber = Unused /\ ssi = Unused /\ raft = Unused /\ picking = Unused
    /\ last = NoCall

RngFrame ==
    UNCHANGED <<clock, fault, sched, env, env2, pending, stack, checker,
                check_all_results, summary, advancing,
                treiber, ssi, raft, picking>>

Rng_seed ==
    /\ last' = CallInt("seed", NoV, Ok(DeterministicRng_seed(rng)))
    /\ UNCHANGED <<rng, forked>> /\ RngFrame

Rng_calls_count ==
    /\ last' = CallInt("calls_count", NoV, Ok(DeterministicRng_calls_count(rng)))
    /\ UNCHANGED <<rng, forked>> /\ RngFrame

Rng_gen ==
    /\ rng.calls < MaxCalls
    /\ LET r == DeterministicRng_gen(rng) IN
       rng' = r.st /\ last' = CallInt("gen", NoV, r.out)
    /\ UNCHANGED forked /\ RngFrame

Rng_gen_range ==
    /\ rng.calls < MaxCalls
    /\ \E b \in GenRanges :
          LET r == DeterministicRng_gen_range(rng, b[1], b[2]) IN
          rng' = r.st /\ last' = CallInt("gen_range", [low |-> b[1], high |-> b[2]], r.out)
    /\ UNCHANGED forked /\ RngFrame

Rng_gen_bool ==
    /\ rng.calls < MaxCalls
    /\ \E p \in Probabilities :
          LET r == DeterministicRng_gen_bool(rng, p) IN
          rng' = r.st /\ last' = CallBool("gen_bool", IntV(p), r.out)
    /\ UNCHANGED forked /\ RngFrame

Rng_shuffle ==
    /\ rng.calls < MaxCalls
    /\ \E sl \in Slices :
          LET r == DeterministicRng_shuffle(rng, sl) IN
          rng' = r.st /\ last' = CallSeq("shuffle", SeqV(sl), r.out)
    /\ UNCHANGED forked /\ RngFrame

Rng_choose ==
    /\ rng.calls < MaxCalls
    /\ \E sl \in Slices :
          LET r == DeterministicRng_choose(rng, sl) IN
          rng' = r.st /\ last' = CallSeq("choose", SeqV(sl), r.out)
    /\ UNCHANGED forked /\ RngFrame

\* fork: the parent is left as the call left it; the child exists only when
\* the call returned.
Rng_fork ==
    /\ rng.calls < MaxCalls
    /\ Len(forked) < MaxForks
    /\ LET r == DeterministicRng_fork(rng) IN
       /\ rng' = r.st
       /\ forked' = IF r.out.tag = "ok" THEN Append(forked, r.child) ELSE forked
       /\ last' = CallInt("fork", NoV, r.out)
    /\ RngFrame

Rng_reset ==
    /\ LET r == DeterministicRng_reset(rng) IN
       rng' = r.st /\ last' = CallUnit("reset", NoV, r.out)
    /\ UNCHANGED forked /\ RngFrame

\* gen on a forked generator.
Rng_child_gen ==
    /\ \E i \in 1..Len(forked) :
          /\ forked[i].calls < MaxChildCalls
          /\ LET r == DeterministicRng_gen(forked[i]) IN
             /\ forked' = [forked EXCEPT ![i] = r.st]
             /\ last' = CallInt("child_gen", IntV(i), r.out)
    /\ UNCHANGED rng /\ RngFrame

RngNext ==
    \/ Rng_seed \/ Rng_calls_count
    \/ Rng_gen \/ Rng_gen_range \/ Rng_gen_bool \/ Rng_shuffle \/ Rng_choose
    \/ Rng_fork \/ Rng_reset \/ Rng_child_gen

SpecRng == RngInit /\ [][RngNext]_vars

\* The calls that consume randomness.
CountedCalls == {"gen", "gen_range", "gen_bool", "shuffle", "choose", "fork"}

\* C5: every gen, gen_range, gen_bool, shuffle, choose or fork that returns
\* raises calls_count by exactly one, however many values the wrapped
\* generator produced for it; reset sets it to 0; no other call changes it.
C5_CallsCountedOnce ==
    [][ /\ (last'.op \in CountedCalls /\ last'.tag = "ok")
              => rng'.calls = rng.calls + 1
        /\ last'.op = "reset" => rng'.calls = 0
        /\ last'.op \notin CountedCalls \cup {"reset"} => rng'.calls = rng.calls
      ]_vars

\* C5 witness: a shuffle that took two values from the wrapped generator,
\* after which more values were produced than calls counted.
C5_Witness ==
    /\ last.op = "shuffle" /\ Len(last.arg.seq) = 3 /\ last.tag = "ok"
    /\ rng.pos > rng.calls

(***************************************************************************)
(* Specification SpecSched: one Scheduler and every sequence of its calls  *)
(***************************************************************************)
\* Thread counts, yield probabilities and thread indices offered to the calls.
ThreadCounts == 0..(THREADS_COUNT_MAX + 1)
YieldProbabilities == {0, YIELD_PROBABILITY_DEFAULT, 5000, PROB_ONE, PROB_ONE + 1}
ThreadIndices == 0..THREADS_COUNT_MAX

\* The schedulers Scheduler::new returns.
NewSchedulers ==
    {c.st : c \in {n \in {Scheduler_new(DeterministicRng_new(s).st, tc, yp) :
                            s \in 1..MaxSeed, tc \in ThreadCounts,
                            yp \in YieldProbabilities} : n.out.tag = "ok"}}

SchedInit ==
    /\ sched \in NewSchedulers
    /\ clock = Unused /\ rng = Unused /\ forked = Unused /\ fault = Unused
    /\ env = Unused /\ env2 = Unused /\ pending = Unused
    /\ stack = Unused /\ checker = Unused
    /\ check_all_results = Unused /\ summary = Unused /\ advancing = Unused
    /\ treiber = Unused /\ ssi = Unused /\ raft = Unused /\ picking = Unused
    /\ last = NoCall

SchedFrame ==
    UNCHANGED <<clock, rng, forked, fault, env, env2, pending, stack, checker,
                check_all_results, summary, advancing,
                treiber, ssi, raft, picking>>

Sch_current_thread ==
    /\ last' = CallInt("current_thread", NoV, Ok(Scheduler_current_thread(sched)))
    /\ UNCHANGED sched /\ SchedFrame

Sch_threads_count ==
    /\ last' = CallInt("threads_count", NoV, Ok(Scheduler_threads_count(sched)))
    /\ UNCHANGED sched /\ SchedFrame

Sch_decisions_count ==
    /\ last' = CallInt("decisions_count", NoV, Ok(Scheduler_decisions_count(sched)))
    /\ UNCHANGED sched /\ SchedFrame

Sch_decide ==
    /\ sched.decisions_count < MaxDecisions /\ sched.rng.calls < MaxCalls
    /\ LET r == yield_point(sched) IN
       sched' = r.st /\ last' = CallRec("decide", IntV(sched.current_thread), r.out)
    /\ SchedFrame

Sch_force_switch ==
    /\ sched.decisions_count < MaxDecisions /\ sched.rng.calls < MaxCalls
    /\ LET r == Scheduler_force_switch(sched) IN
       sched' = r.st /\ last' = CallInt("force_switch", IntV(sched.current_thread), r.out)
    /\ SchedFrame

Sch_set_current_thread ==
    /\ \E t \in ThreadIndices :
          LET r == Scheduler_set_current_thread(sched, t) IN
          sched' = r.st /\ last' = CallUnit("set_current_thread", IntV(t), r.out)
    /\ SchedFrame

Sch_add_thread ==
    /\ LET r == Scheduler_add_thread(sched) IN
       sched' = r.st /\ last' = CallInt("add_thread", NoV, r.out)
    /\ SchedFrame

Sch_remove_thread ==
    /\ \E t \in ThreadIndices :
          LET r == Scheduler_remove_thread(sched, t) IN
          sched' = r.st /\ last' = CallUnit("remove_thread", IntV(t), r.out)
    /\ SchedFrame

SchedNext ==
    \/ Sch_current_thread \/ Sch_threads_count \/ Sch_decisions_count
    \/ Sch_decide \/ Sch_force_switch \/ Sch_set_current_thread
    \/ Sch_add_thread \/ Sch_remove_thread

SpecSched == SchedInit /\ [][SchedNext]_vars

\* C2: after any sequence of Scheduler calls, current_thread is a valid
\* index, 0 <= current_thread < threads_count, and threads_count >= 1.
C2_CurrentThreadValid ==
    /\ sched.threads_count >= 1
    /\ 0 <= sched.current_thread
    /\ sched.current_thread < sched.threads_count

\* C2 witness: the current thread, which was the one with the highest index,
\* has been removed, and the current thread is again the highest index.
C2_Witness ==
    /\ last.op = "remove_thread" /\ last.tag = "ok"
    /\ last.arg.int = sched.threads_count
    /\ sched.threads_count >= 2
    /\ sched.current_thread = sched.threads_count - 1

(***************************************************************************)
(* Specification SpecFault: one FaultInjector and every sequence of its    *)
(* calls                                                                   *)
(***************************************************************************)
\* Configs offered to new and set_config: the presets, the configs of the
\* crate's tests, and three with a probability outside [0.0, 1.0].
ValidFaultConfigs ==
    {FaultConfig_none, FaultConfig_default, FaultConfig_aggressive,
     FaultConfig_delays_only,
     FaultConfig(PROB_ONE, 500, 4, 10, TRUE),
     FaultConfig(5000, 500, 4, 10, TRUE),
     FaultConfig(100, PROB_ONE, 3, 10, TRUE),
     FaultConfig(100, 500, 4, PROB_ONE, TRUE)}
InvalidFaultConfigs ==
    {FaultConfig(2 * PROB_ONE, 500, 4, 10, TRUE),
     FaultConfig(100, -1, 4, 10, TRUE),
     FaultConfig(100, 500, 4, PROB_ONE + 1, TRUE)}
FaultConfigs == ValidFaultConfigs \cup InvalidFaultConfigs

\* Buffers offered to maybe_corrupt.
Buffers == {<<>>, <<170>>, <<255, 170>>}

\* The injectors FaultInjector::new returns.
NewFaultInjectors ==
    {c.st : c \in {n \in {FaultInjector_new(DeterministicRng_new(s).st, cfg) :
                            s \in 1..MaxSeed, cfg \in FaultConfigs} :
                   n.out.tag = "ok"}}

FaultInit ==
    /\ fault \in NewFaultInjectors
    /\ clock = Unused /\ rng = Unused /\ forked = Unused /\ sched = Unused
    /\ env = Unused /\ env2 = Unused /\ pending = Unused
    /\ stack = Unused /\ checker = Unused
    /\ check_all_results = Unused /\ summary = Unused /\ advancing = Unused
    /\ treiber = Unused /\ ssi = Unused /\ raft = Unused /\ picking = Unused
    /\ last = NoCall

FaultFrame ==
    UNCHANGED <<clock, rng, forked, sched, env, env2, pending, stack, checker,
                check_all_results, summary, advancing,
                treiber, ssi, raft, picking>>

Flt_should_fail ==
    /\ fault.rng.calls < MaxCalls
    /\ LET r == FaultInjector_should_fail(fault) IN
       fault' = r.st /\ last' = CallBool("should_fail", NoV, r.out)
    /\ FaultFrame

Flt_maybe_delay_ns ==
    /\ fault.rng.calls < MaxCalls
    /\ LET r == FaultInjector_maybe_delay_ns(fault) IN
       fault' = r.st /\ last' = CallSeq("maybe_delay_ns", NoV, r.out)
    /\ FaultFrame

Flt_should_crash ==
    /\ fault.rng.calls < MaxCalls
    /\ LET r == FaultInjector_should_crash(fault) IN
       fault' = r.st /\ last' = CallBool("should_crash", NoV, r.out)
    /\ FaultFrame

Flt_maybe_corrupt ==
    /\ fault.rng.calls < MaxCalls
    /\ \E data \in Buffers :
          LET r == FaultInjector_maybe_corrupt(fault, data) IN
          fault' = r.st /\ last' = CallRec("maybe_corrupt", SeqV(data), r.out)
    /\ FaultFrame

Flt_stats ==
    /\ last' = CallRec("stats", NoV, Ok(FaultInjector_stats(fault)))
    /\ UNCHANGED fault /\ FaultFrame

Flt_config ==
    /\ last' = CallRec("config", NoV, Ok(FaultInjector_config(fault)))
    /\ UNCHANGED fault /\ FaultFrame

Flt_set_config ==
    /\ \E cfg \in FaultConfigs :
          LET r == FaultInjector_set_config(fault, cfg) IN
          fault' = r.st /\ last' = CallUnit("set_config", cfg, r.out)
    /\ FaultFrame

Flt_set_enabled ==
    /\ \E en \in BOOLEAN :
          LET r == FaultInjector_set_enabled(fault, en) IN
          fault' = r.st /\ last' = CallUnit("set_enabled", BoolV(en), r.out)
    /\ FaultFrame

FaultNext ==
    \/ Flt_should_fail \/ Flt_maybe_delay_ns \/ Flt_should_crash
    \/ Flt_maybe_corrupt \/ Flt_stats \/ Flt_config
    \/ Flt_set_config \/ Flt_set_enabled

SpecFault == FaultInit /\ [][FaultNext]_vars

\* The calls that take one fault decision.
Decisions == {"should_fail", "should_crash", "maybe_delay_ns", "maybe_corrupt"}

\* C6 as claimed: every decision of the FaultInjector raises the call count
\* of its private generator by exactly one, whatever the outcome.
C6_OneDrawPerDecision ==
    [][ (last'.op \in Decisions /\ last'.tag = "ok")
            => fault'.rng.calls = fault.rng.calls + 1 ]_vars

\* The counted calls a decision makes on the private generator, given the
\* injector before the call and the call's record.
DrawsOfDecision(f, c) ==
    CASE c.op \in {"should_fail", "should_crash"} ->
            IF f.config.enabled THEN 1 ELSE 0
      [] c.op = "maybe_delay_ns" ->
            IF ~f.config.enabled \/ f.config.delay_ns_max = 0 THEN 0
            ELSE IF c.val.seq = <<>> THEN 1 ELSE 2
      [] c.op = "maybe_corrupt" ->
            IF ~f.config.enabled \/ Len(c.arg.seq) = 0 THEN 0
            ELSE IF c.val.flipped THEN 3 ELSE 1

\* C6 as amended: a decision that returns early (injector disabled,
\* delay_ns_max = 0, empty buffer) draws nothing; otherwise it draws once for
\* its Bernoulli trial, and when the trial succeeds maybe_delay_ns draws once
\* more (the delay) and maybe_corrupt twice more (byte and bit index).
C6_DrawsPerDecision ==
    [][ (last'.op \in Decisions /\ last'.tag = "ok")
            => fault'.rng.calls = fault.rng.calls + DrawsOfDecision(fault, last') ]_vars

\* C6 witness: maybe_corrupt has flipped a bit, after three draws.
C6_Witness ==
    /\ last.op = "maybe_corrupt" /\ last.tag = "ok" /\ last.val.flipped
    /\ fault.rng.calls = 3

\* C8 as claimed: every probability of the injector's current config lies in
\* [0.0, 1.0], also after set_config.
C8_ProbabilitiesInRange ==
    /\ 0 <= fault.config.failure_probability
    /\ fault.config.failure_probability <= PROB_ONE
    /\ 0 <= fault.config.delay_probability
    /\ fault.config.delay_probability <= PROB_ONE
    /\ 0 <= fault.config.crash_probability
    /\ fault.config.crash_probability <= PROB_ONE

(***************************************************************************)
(* Specification SpecEnv: two DstEnv built by the same constructor call,   *)
(* the second replaying every call made on the first                       *)
(***************************************************************************)
\* Master seeds offered to the constructors are 0..MaxEnvSeed.
MaxEnvSeed == 3
\* The counted work of one environment (draws of its rng, draws of its fault
\* injector, scheduling decisions) is at most this.
MaxEnvWork == 3
\* At most this many generators are kept from fork_rng and fork.
MaxEnvForks == 2
EnvSeeds == 0..MaxEnvSeed
EnvFaultConfigs == {FaultConfig_none, FaultConfig(PROB_ONE, PROB_ONE, 4, 10, TRUE)}
EnvThreadCounts == {0, 1, 3}
EnvDurations == {0, 20}

\* The environments the three constructors return.
NewEnvs ==
    {c.st : c \in {n \in {DstEnv_new(s) : s \in EnvSeeds}
                         \cup {DstEnv_with_fault_config(s, cfg) :
                                 s \in EnvSeeds, cfg \in EnvFaultConfigs}
                         \cup {DstEnv_with_scheduler(s, n) :
                                 s \in EnvSeeds, n \in EnvThreadCounts} :
                   n.out.tag = "ok"}}

EnvInit ==
    /\ pending = None /\ forked = <<>>
    /\ env \in NewEnvs /\ env2 = env
    /\ clock = Unused /\ rng = Unused /\ fault = Unused /\ sched = Unused
    /\ stack = Unused /\ checker = Unused
    /\ check_all_results = Unused /\ summary = Unused /\ advancing = Unused
    /\ treiber = Unused /\ ssi = Unused /\ raft = Unused /\ picking = Unused
    /\ last = NoCall

EnvFrame ==
    UNCHANGED <<clock, rng, fault, sched, stack, checker, check_all_results,
                summary, advancing,
                treiber, ssi, raft, picking>>

EnvWork(e) ==
    e.rng.calls + e.fault.rng.calls
    + (IF e.scheduler = None THEN 0 ELSE e.scheduler[1].decisions_count)

\* One call, made by the first environment when the second has caught up
\* (can is the call's bound), and otherwise by the second environment if it
\* is the call the first has made; rec1, st1 are the call's record and the
\* state it leaves on the first environment, rec2, st2 on the second.
EnvTurn(can, rec1, st1, rec2, st2) ==
    \/ /\ pending = None /\ can
       /\ env' = st1 /\ pending' = Some(rec1) /\ last' = rec1
       /\ UNCHANGED env2
    \/ /\ pending # None
       /\ pending[1].op = rec2.op /\ pending[1].arg = rec2.arg
       /\ env2' = st2 /\ pending' = None
       /\ last' = [op |-> "replay", arg |-> pending[1], tag |-> rec2.tag, val |-> rec2]
       /\ UNCHANGED env

\* env.rng().gen()
Env_rng_gen ==
    /\ LET r1 == DeterministicRng_gen(env.rng)
           r2 == DeterministicRng_gen(env2.rng) IN
       EnvTurn(EnvWork(env) < MaxEnvWork,
               CallInt("rng.gen", NoV, r1.out), [env EXCEPT !.rng = r1.st],
               CallInt("rng.gen", NoV, r2.out), [env2 EXCEPT !.rng = r2.st])
    /\ UNCHANGED forked /\ EnvFrame

\* env.fork_rng(); the first environment's generator is kept.
Env_fork_rng ==
    /\ LET r1 == DstEnv_fork_rng(env)
           r2 == DstEnv_fork_rng(env2) IN
       /\ EnvTurn(EnvWork(env) < MaxEnvWork /\ Len(forked) < MaxEnvForks,
                  CallRec("fork_rng", NoV, [tag |-> r1.out.tag, val |-> r1.child]), r1.st,
                  CallRec("fork_rng", NoV, [tag |-> r2.out.tag, val |-> r2.child]), r2.st)
       /\ forked' = IF pending = None /\ r1.out.tag = "ok"
                    THEN Append(forked, r1.child) ELSE forked
    /\ EnvFrame

\* env.fault().should_fail()
Env_fault_should_fail ==
    /\ LET r1 == FaultInjector_should_fail(env.fault)
           r2 == FaultInjector_should_fail(env2.fault) IN
       EnvTurn(EnvWork(env) < MaxEnvWork,
               CallBool("fault.should_fail", NoV, r1.out), [env EXCEPT !.fault = r1.st],
               CallBool("fault.should_fail", NoV, r2.out), [env2 EXCEPT !.fault = r2.st])
    /\ UNCHANGED forked /\ EnvFrame

\* if let Some(s) = env.scheduler() { s.decide() }
Env_scheduler_decide ==
    /\ env.scheduler # None
    /\ LET r1 == Scheduler_decide(env.scheduler[1])
           r2 == Scheduler_decide(env2.scheduler[1]) IN
       EnvTurn(EnvWork(env) < MaxEnvWork,
               CallRec("scheduler.decide", NoV, r1.out),
               [env EXCEPT !.scheduler = Some(r1.st)],
               CallRec("scheduler.decide", NoV, r2.out),
               [env2 EXCEPT !.scheduler = Some(r2.st)])
    /\ UNCHANGED forked /\ EnvFrame

\* if let Some(s) = env.scheduler() { s.force_switch() }
Env_scheduler_force_switch ==
    /\ env.scheduler # None
    /\ LET r1 == Scheduler_force_switch(env.scheduler[1])
           r2 == Scheduler_force_switch(env2.scheduler[1]) IN
       EnvTurn(EnvWork(env) < MaxEnvWork,
               CallInt("scheduler.force_switch", NoV, r1.out),
               [env EXCEPT !.scheduler = Some(r1.st)],
               CallInt("scheduler.force_switch", NoV, r2.out),
               [env2 EXCEPT !.scheduler = Some(r2.st)])
    /\ UNCHANGED forked /\ EnvFrame

\* env.clock().advance_ns(d)
Env_clock_advance_ns ==
    /\ \E d \in EnvDurations :
          LET r1 == SimClock_advance_ns(env.clock, d)
              r2 == SimClock_advance_ns(env2.clock, d) IN
          EnvTurn(TRUE,
                  CallUnit("clock.advance_ns", IntV(d), r1.out),
                  [env EXCEPT !.clock = r1.st],
                  CallUnit("clock.advance_ns", IntV(d), r2.out),
                  [env2 EXCEPT !.clock = r2.st])
    /\ UNCHANGED forked /\ EnvFrame

Env_step ==
    /\ \E d \in EnvDurations :
          LET r1 == DstEnv_step(env, d)
              r2 == DstEnv_step(env2, d) IN
          EnvTurn(EnvWork(env) < MaxEnvWork,
                  CallBool("step", IntV(d), r1.out), r1.st,
                  CallBool("step", IntV(d), r2.out), r2.st)
    /\ UNCHANGED forked /\ EnvFrame

Env_maybe_delay ==
    /\ LET r1 == DstEnv_maybe_delay(env)
           r2 == DstEnv_maybe_delay(env2) IN
       EnvTurn(EnvWork(env) + 1 < MaxEnvWork,
               CallUnit("maybe_delay", NoV, r1.out), r1.st,
               CallUnit("maybe_delay", NoV, r2.out), r2.st)
    /\ UNCHANGED forked /\ EnvFrame

Env_stats ==
    /\ EnvTurn(TRUE,
               CallRec("stats", NoV, Ok(DstEnv_stats(env))), env,
               CallRec("stats", NoV, Ok(DstEnv_stats(env2))), env2)
    /\ UNCHANGED forked /\ EnvFrame

\* A generator returned by fork_rng or fork is itself forked.
Env_child_fork ==
    /\ Len(forked) < MaxEnvForks
    /\ \E i \in 1..Len(forked) :
          /\ forked[i].calls < MaxChildCalls
          /\ LET r == DeterministicRng_fork(forked[i]) IN
             /\ forked' = IF r.out.tag = "ok"
                          THEN Append([forked EXCEPT ![i] = r.st], r.child)
                          ELSE [forked EXCEPT ![i] = r.st]
             /\ last' = CallRec("child.fork", IntV(i),
                                [tag |-> r.out.tag, val |-> r.child])
    /\ UNCHANGED <<env, env2, pending>> /\ EnvFrame

EnvNext ==
    \/ Env_rng_gen \/ Env_fork_rng
    \/ Env_fault_should_fail
    \/ Env_scheduler_decide \/ Env_scheduler_force_switch
    \/ Env_clock_advance_ns \/ Env_step \/ Env_maybe_delay
    \/ Env_stats
    \/ Env_child_fork

SpecEnv == EnvInit /\ [][EnvNext]_vars

\* What the accessors and stats show of an environment.
Observable(e) ==
    [now_ns |-> SimClock_now_ns(e.clock),
     rng_calls |-> DeterministicRng_calls_count(e.rng),
     fault_stats |-> FaultInjector_stats(e.fault),
     current_thread |-> IF e.scheduler = None THEN None
                        ELSE Some(Scheduler_current_thread(e.scheduler[1])),
     seed |-> DstEnv_seed(e),
     stats |-> DstEnv_stats(e)]

C7_SeedsNonZero ==
    /\ \A e \in {env, env2} :
          /\ e.seed # 0 /\ e.rng.seed # 0 /\ e.fault.rng.seed # 0
          /\ e.scheduler # None => e.scheduler[1].rng.seed # 0
    /\ \A i \in 1..Len(forked) : forked[i].seed # 0
    /\ \A s \in EnvSeeds :
          (s = 0 \/ \E p \in 0..1 : Xoshiro_next_u64(s, p) = 0)
              => DstEnv_new(s).out.tag = "panic"
    /\ last.op \in {"fork_rng", "child.fork"} /\ last.tag = "ok"
          => last.val.seed # 0

\* C7 witness: an environment with a scheduler, one forked generator kept,
\* and a fork_rng that drew zero for the seed and was rejected.
C7_Witness ==
    /\ env.scheduler # None
    /\ Len(forked) >= 1
    /\ last.op = "fork_rng" /\ last.tag = "panic"
    /\ Xoshiro_next_u64(env.rng.seed, env.rng.pos - 1) = 0

(***************************************************************************)
(* Specification SpecChecker: a stack under test in any state, correct or  *)
(* not, and a StackPropertyChecker on it                                   *)
(***************************************************************************)
\* Elements are 1..MaxElem.
MaxElem == 2
\* The contents of a stack built as a struct literal are at most this long.
MaxLen == 2
\* push and pop are called while the history is shorter than this.
MaxOps == 1

Elems == 1..MaxElem

RECURSIVE SeqsUpTo(_, _)
SeqsUpTo(S, n) ==
    IF n = 0 THEN {<<>>}
    ELSE SeqsUpTo(S, n - 1) \cup
         {Append(q, x) : q \in {p \in SeqsUpTo(S, n - 1) : Len(p) = n - 1}, x \in S}

HistoryOp(type, element, step) ==
    [thread_id |-> 0, op_type |-> type, element |-> element, step |-> step]

\* Histories of struct literals: empty, a pop of the wrong element, a pop
\* recorded on an empty model stack.
LiteralHistories ==
    {<<>>,
     <<HistoryOp("Push", Some(1), 1), HistoryOp("Push", Some(2), 2),
       HistoryOp("Pop", Some(1), 3)>>,
     <<HistoryOp("Pop", Some(1), 1), HistoryOp("PopEmpty", None, 2)>>}

\* The stacks a struct literal builds (as the crate's tests build them), any
\* field being anything.
LiteralStacks ==
    [pushed : SUBSET Elems, popped : SUBSET Elems,
     contents : SeqsUpTo(Elems, MaxLen),
     history : {[operations |-> h] : h \in LiteralHistories}]

CheckerSeeds == {0, 1}

CheckerInit ==
    /\ stack \in {TestStack_new} \cup LiteralStacks
    /\ checker = StackPropertyChecker_new
    /\ clock = Unused /\ rng = Unused /\ forked = Unused /\ fault = Unused
    /\ sched = Unused /\ env = Unused /\ env2 = Unused /\ pending = Unused
    /\ check_all_results = Unused /\ summary = Unused /\ advancing = Unused
    /\ treiber = Unused /\ ssi = Unused /\ raft = Unused /\ picking = Unused
    /\ last = NoCall

CheckerFrame ==
    UNCHANGED <<clock, rng, forked, fault, sched, env, env2, pending,
                check_all_results, summary, advancing,
                treiber, ssi, raft, picking>>

\* The elements the pass over the pushed set can meet first (0 stands for
\* none when no element is lost).
FirstLost(s) == IF LostElements(s) = {} THEN {0} ELSE LostElements(s)

Chk_push ==
    /\ Len(stack.history.operations) < MaxOps
    /\ \E v \in Elems :
          LET r == TestStack_push(stack, v) IN
          stack' = r.st /\ last' = CallUnit("push", IntV(v), r.out)
    /\ UNCHANGED checker /\ CheckerFrame

Chk_pop ==
    /\ Len(stack.history.operations) < MaxOps
    /\ LET r == TestStack_pop(stack) IN
       stack' = r.st /\ last' = CallSeq("pop", NoV, r.out)
    /\ UNCHANGED checker /\ CheckerFrame

Chk_with_seed ==
    /\ \E seed \in CheckerSeeds :
          LET r == StackPropertyChecker_with_seed(checker, seed) IN
          checker' = r.st /\ last' = CallUnit("with_seed", IntV(seed), r.out)
    /\ UNCHANGED stack /\ CheckerFrame

Chk_check_all ==
    /\ \E first \in FirstLost(stack) :
          LET r == StackPropertyChecker_check_all(stack, checker, first) IN
          last' = [op |-> "check_all", arg |-> NoV, tag |-> r.tag,
                   val |-> IF r.tag = "ok" THEN [results |-> r.val] ELSE NoV]
    /\ UNCHANGED <<stack, checker>> /\ CheckerFrame

\* verify_all and all_hold each call check_all themselves.
Chk_verify_all ==
    /\ \E first \in FirstLost(stack) :
          LET r == StackPropertyChecker_check_all(stack, checker, first) IN
          last' = [op |-> "verify_all",
                   arg |-> IF r.tag = "ok" THEN [results |-> r.val] ELSE NoV,
                   tag |-> r.tag,
                   val |-> IF r.tag = "ok"
                           THEN [result |-> PropertyChecker_verify_all(r.val)]
                           ELSE NoV]
    /\ UNCHANGED <<stack, checker>> /\ CheckerFrame

Chk_all_hold ==
    /\ \E first \in FirstLost(stack) :
          LET r == StackPropertyChecker_check_all(stack, checker, first) IN
          last' = [op |-> "all_hold",
                   arg |-> IF r.tag = "ok" THEN [results |-> r.val] ELSE NoV,
                   tag |-> r.tag,
                   val |-> IF r.tag = "ok"
                           THEN BoolV(PropertyChecker_all_hold(r.val))
                           ELSE NoV]
    /\ UNCHANGED <<stack, checker>> /\ CheckerFrame

CheckerNext ==
    \/ Chk_push \/ Chk_pop \/ Chk_with_seed
    \/ Chk_check_all \/ Chk_verify_all \/ Chk_all_hold

SpecChecker == CheckerInit /\ [][CheckerNext]_vars

StackPropertyNames ==
    <<"NoLostElements", "NoDuplicates", "LIFO_Order", "Linearizability", "ABA_Safety">>

\* C9: in every state of the stack, whatever invariants it violates,
\* check_all returns (does not abort) and what it returns is five results
\* named NoLostElements, NoDuplicates, LIFO_Order, Linearizability and
\* ABA_Safety, in this order.
C9_CheckAllComplete ==
    /\ \A first \in FirstLost(stack) :
          LET r == StackPropertyChecker_check_all(stack, checker, first) IN
          /\ r.tag = "ok"
          /\ Len(r.val) = 5
          /\ \A i \in 1..5 : r.val[i].name = StackPropertyNames[i]
    /\ last.op = "check_all" =>
          /\ last.tag = "ok"
          /\ [i \in 1..Len(last.val.results) |-> last.val.results[i].name]
                = StackPropertyNames

\* C9 witness: check_all has returned for a stack that has lost an element,
\* holds a duplicate and has a history out of LIFO order.
C9_Witness ==
    /\ last.op = "check_all" /\ last.tag = "ok"
    /\ ~last.val.results[1].holds
    /\ ~last.val.results[2].holds
    /\ ~last.val.results[3].holds
    /\ last.val.results[4].holds /\ last.val.results[5].holds

\* The least index of a result that does not hold, 0 if all hold.
EarliestFailure(results) ==
    IF \A i \in 1..Len(results) : results[i].holds THEN 0
    ELSE CHOOSE i \in 1..Len(results) :
            ~results[i].holds /\ \A j \in 1..(i - 1) : results[j].holds

\* C10: verify_all returns Err(r) with r the earliest failing result of
\* check_all, and Ok exactly when no result fails; all_hold is true exactly
\* when verify_all is Ok.
C10_VerifyAllEarliestFailure ==
    /\ last.op = "verify_all" /\ last.tag = "ok" =>
          LET rs == last.arg.results
              k == EarliestFailure(rs) IN
          /\ k = 0 <=> last.val.result.tag = "ok"
          /\ k # 0 => last.val.result = Err(rs[k])
    /\ \A f1 \in FirstLost(stack), f2 \in FirstLost(stack) :
          LET r1 == StackPropertyChecker_check_all(stack, checker, f1)
              r2 == StackPropertyChecker_check_all(stack, checker, f2) IN
          r1.tag = "ok" /\ r2.tag = "ok" =>
            /\ PropertyChecker_all_hold(r1.val)
                  <=> PropertyChecker_verify_all(r2.val).tag = "ok"
            /\ PropertyChecker_verify_all(r2.val).tag = "err" =>
                  PropertyChecker_verify_all(r2.val).val.name
                      = r1.val[EarliestFailure(r1.val)].name
    /\ last.op = "all_hold" /\ last.tag = "ok" =>
          \A f \in FirstLost(stack) :
             LET r == StackPropertyChecker_check_all(stack, checker, f) IN
             r.tag = "ok" =>
                (last.val.bool <=> PropertyChecker_verify_all(r.val).tag = "ok")

\* C10 witness: verify_all has returned the NoDuplicates result of a stack
\* whose LIFO_Order result fails too and whose NoLostElements result holds.
C10_Witness ==
    /\ last.op = "verify_all" /\ last.tag = "ok"
    /\ last.arg.results[1].holds
    /\ ~last.arg.results[2].holds
    /\ ~last.arg.results[3].holds
    /\ last.val.result.tag = "err"
    /\ last.val.result.val.name = "NoDuplicates"

\* e occurs in the sequence q.
Occurs(e, q) == \E i \in 1..Len(q) : q[i] = e

\* What C11 says of one NoLostElements result r of the stack s under the
\* checker c.
NoLostElementsExact(r, s, c) ==
    /\ r.name = "NoLostElements"
    /\ r.holds <=> \A e \in s.pushed : Occurs(e, s.contents) \/ e \in s.popped
    /\ ~r.holds =>
          /\ r.violation # None
          /\ r.violation[1].element \in s.pushed
          /\ ~Occurs(r.violation[1].element, s.contents)
          /\ r.violation[1].element \notin s.popped
          /\ r.counterexample # None
          /\ r.counterexample[1].seed = c.dst_seed

\* C11: the NoLostElements result holds exactly when every pushed value is in
\* the contents or in the popped set; a failing result names a value that is
\* pushed and in neither, and its counterexample carries the checker's seed
\* (none when with_seed was not called).
C11_NoLostElementsExact ==
    /\ \A first \in FirstLost(stack) :
          LET r == StackPropertyChecker_check_no_lost_elements(stack, checker, first) IN
          r.tag = "ok" /\ NoLostElementsExact(r.val, stack, checker)
    /\ last.op = "check_all" /\ last.tag = "ok" =>
          NoLostElementsExact(last.val.results[1], stack, checker)

\* C11 witness: check_all has reported one of two lost elements of a stack
\* whose checker was given seed 1, and the counterexample carries that seed.
C11_Witness ==
    /\ last.op = "check_all" /\ last.tag = "ok"
    /\ ~last.val.results[1].holds
    /\ Cardinality(LostElements(stack)) >= 2
    /\ checker.dst_seed = Some(1)
    /\ last.val.results[1].counterexample[1].seed = Some(1)

\* Replay of a history against a model stack as C12 words it: a Pop returns
\* the top of the model stack, a PopEmpty finds the model stack empty.
RECURSIVE LifoConsistent(_, _, _)
LifoConsistent(operations, i, model_stack) ==
    IF i > Len(operations) THEN TRUE
    ELSE LET op == operations[i] IN
         IF op.op_type = "Push"
         THEN op.element # None
              /\ LifoConsistent(operations, i + 1, Append(model_stack, op.element[1]))
         ELSE IF op.op_type = "Pop"
         THEN /\ model_stack # <<>>
              /\ op.element = Some(model_stack[Len(model_stack)])
              /\ LifoConsistent(operations, i + 1,
                                SubSeq(model_stack, 1, Len(model_stack) - 1))
         ELSE model_stack = <<>> /\ LifoConsistent(operations, i + 1, model_stack)

\* C12: the LIFO_Order result of check_all holds exactly when the recorded
\* history replays against a model stack with every Pop returning the top
\* of the model stack and every PopEmpty recorded while it is empty.
C12_LifoOrderExact ==
    last.op = "check_all" /\ last.tag = "ok" =>
        (last.val.results[3].holds <=>
            LifoConsistent(stack.history.operations, 1, <<>>))

\* The direction of C12 the code keeps: a history that replays in LIFO order
\* gets a LIFO_Order result that holds.
C12_ConsistentHistoryHolds ==
    last.op = "check_all" /\ last.tag = "ok"
    /\ LifoConsistent(stack.history.operations, 1, <<>>) =>
        last.val.results[3].holds

\* C13: the Linearizability result of check_all holds only when the
\* recorded history is a valid sequential stack execution (each Pop returns
\* the value pushed last and not yet popped, each PopEmpty finds the stack
\* empty).
C13_LinearizabilityChecksHistory ==
    last.op = "check_all" /\ last.tag = "ok"
    /\ last.val.results[4].holds =>
        LifoConsistent(stack.history.operations, 1, <<>>)

(***************************************************************************)
(* SpecSummary: summary() and format_report() over the results of any      *)
(* PropertyChecker implementation                                          *)
(***************************************************************************)
\* The longest vector of results.
MaxResults == 3

\* One snapshot of a counterexample.
Snapshot(step) == [step |-> step, description |-> "state", variables |-> <<>>]

\* The results a check can give: a pass, a failure without a counterexample,
\* and failures with a counterexample (without a seed and empty, or with a
\* seed and one snapshot).
SummaryResults ==
    {r.val : r \in
        {PropertyResult_pass("P", TLA_SPEC, 1),
         PropertyResult_fail("Q", TLA_SPEC, 2,
             [text |-> "violated", element |-> 0, expected |-> None], None),
         PropertyResult_fail("R", TLA_SPEC, 3,
             [text |-> "violated", element |-> 0, expected |-> None],
             Some(Counterexample_new)),
         PropertyResult_fail("S", TLA_SPEC, 4,
             [text |-> "violated", element |-> 0, expected |-> None],
             Some(Counterexample_add_state(Counterexample_with_seed(1),
                                           Snapshot(1))))}}

SummaryInit ==
    /\ check_all_results \in SeqsUpTo(SummaryResults, MaxResults)
    /\ summary = None
    /\ clock = Unused /\ rng = Unused /\ forked = Unused /\ fault = Unused
    /\ sched = Unused /\ env = Unused /\ env2 = Unused /\ pending = Unused
    /\ stack = Unused /\ checker = Unused /\ advancing = Unused
    /\ treiber = Unused /\ ssi = Unused /\ raft = Unused /\ picking = Unused
    /\ last = NoCall

SummaryFrame ==
    UNCHANGED <<clock, rng, forked, fault, sched, env, env2, pending, stack,
                checker, advancing,
                treiber, ssi, raft, picking>>

Sum_summary ==
    /\ LET r == PropertyChecker_summary(check_all_results) IN
       /\ summary' = IF r.tag = "ok" THEN Some(r.val) ELSE summary
       /\ last' = [op |-> "summary", arg |-> NoV, tag |-> r.tag,
                   val |-> IF r.tag = "ok" THEN [summary |-> r.val] ELSE NoV]
    /\ UNCHANGED check_all_results /\ SummaryFrame

Sum_format_report ==
    /\ summary # None
    /\ LET r == PropertySummary_format_report(summary[1]) IN
       last' = [op |-> "format_report", arg |-> NoV, tag |-> r.tag,
                val |-> IF r.tag = "ok" THEN [report |-> r.val] ELSE NoV]
    /\ UNCHANGED <<check_all_results, summary>> /\ SummaryFrame

Sum_verify_all ==
    /\ last' = [op |-> "verify_all", arg |-> NoV, tag |-> "ok",
                val |-> [result |-> PropertyChecker_verify_all(check_all_results)]]
    /\ UNCHANGED <<check_all_results, summary>> /\ SummaryFrame

SummaryNext == Sum_summary \/ Sum_format_report \/ Sum_verify_all

SpecSummary == SummaryInit /\ [][SummaryNext]_vars

\* C14 as stated: the report carries a diagram exactly when some failing
\* result of the summary carries a counterexample, at whatever position.
C14_DiagramForAnyFailure ==
    last.op = "format_report" /\ last.tag = "ok" =>
        (last.val.report.counterexample # None <=>
            \E i \in 1..Len(summary[1].results) :
                /\ ~summary[1].results[i].holds
                /\ summary[1].results[i].counterexample # None)

\* C14, amended: the report carries a diagram exactly when the first failing
\* result of the summary carries a counterexample, and the diagram is the
\* rendering of that counterexample; the counterexamples of later failures
\* are not rendered.
C14_DiagramForFirstFailure ==
    last.op = "format_report" /\ last.tag = "ok" =>
        LET rs == summary[1].results
            failing == {i \in 1..Len(rs) : ~rs[i].holds} IN
        /\ last.val.report.counterexample # None <=>
              \E i \in failing :
                  /\ \A j \in failing : i <= j
                  /\ rs[i].counterexample # None
        /\ \A i \in failing :
              (\A j \in failing : i <= j) /\ rs[i].counterexample # None =>
                  last.val.report.counterexample =
                      Some(Counterexample_render_diagram(rs[i].counterexample[1]))

\* C14 witness: a report with a diagram for a summary whose first failure
\* comes after a pass and carries a counterexample, with a later failure that
\* carries a different one.
C14_Witness ==
    /\ last.op = "format_report" /\ last.tag = "ok"
    /\ last.val.report.counterexample # None
    /\ Len(summary[1].results) = 3
    /\ summary[1].results[1].holds
    /\ ~summary[1].results[2].holds /\ ~summary[1].results[3].holds
    /\ summary[1].results[2].counterexample # None
    /\ summary[1].results[3].counterexample # None
    /\ summary[1].results[2].counterexample # summary[1].results[3].counterexample

(***************************************************************************)
(* Claims about the FaultInjector's decisions (under SpecFault)            *)
(***************************************************************************)
\* C15: while the config is disabled, should_fail and should_crash return
\* false, maybe_delay_ns returns None, maybe_corrupt returns false and leaves
\* the buffer as it was, and the call changes no counter and nothing of the
\* private generator.
C15_DisabledInjectsNothing ==
    [][ (~fault.config.enabled /\ last'.op \in Decisions) =>
            /\ last'.tag = "ok"
            /\ fault' = fault
            /\ last'.op \in {"should_fail", "should_crash"} =>
                  last'.val = BoolV(FALSE)
            /\ last'.op = "maybe_delay_ns" => last'.val = SeqV(None)
            /\ last'.op = "maybe_corrupt" =>
                  ~last'.val.flipped /\ last'.val.data = last'.arg.seq ]_vars

\* C15 witness: a disabled injector whose delay probability is 1 and whose
\* generator has been drawn from has answered maybe_delay_ns with None.
C15_Witness ==
    /\ ~fault.config.enabled
    /\ fault.config.delay_probability = PROB_ONE /\ fault.config.delay_ns_max > 0
    /\ fault.rng.calls > 0 /\ fault.delays_injected_count > 0
    /\ last.op = "maybe_delay_ns" /\ last.tag = "ok" /\ last.val = SeqV(None)

\* C16: a maybe_delay_ns that returns Some(d) has 1 <= d <= delay_ns_max; it
\* returns None when delay_ns_max is 0 or the config is disabled; and the
\* delay counter is one higher after the call exactly when Some was
\* returned, and unchanged otherwise.
C16_DelayInRangeAndCounted ==
    [][ (last'.op = "maybe_delay_ns" /\ last'.tag = "ok") =>
            /\ last'.val.seq # None =>
                  /\ 1 <= last'.val.seq[1]
                  /\ last'.val.seq[1] <= fault.config.delay_ns_max
            /\ (fault.config.delay_ns_max = 0 \/ ~fault.config.enabled) =>
                  last'.val.seq = None
            /\ fault'.delays_injected_count =
                  fault.delays_injected_count
                  + (IF last'.val.seq # None THEN 1 ELSE 0) ]_vars

\* C16 witness: maybe_delay_ns has returned the largest delay of a config
\* whose delay_ns_max is at least 3, and the delay counter stands at 1.
C16_Witness ==
    /\ last.op = "maybe_delay_ns" /\ last.tag = "ok"
    /\ fault.config.delay_ns_max >= 3
    /\ last.val.seq = Some(fault.config.delay_ns_max)
    /\ fault.delays_injected_count = 1

\* The bits (byte position, bit position) in which two buffers of the same
\* length differ.
ChangedBits(before, after) ==
    {p \in (1..Len(before)) \X (0..7) :
        (before[p[1]] \div Pow2(p[2])) % 2 # (after[p[1]] \div Pow2(p[2])) % 2}

\* C17: one maybe_corrupt leaves the buffer's length as it was and every byte
\* a byte, and changes at most one bit; it returns true exactly when exactly
\* one bit differs afterwards and false exactly when the buffer is as it was;
\* for an empty buffer it returns false.
C17_AtMostOneBitFlipped ==
    last.op = "maybe_corrupt" /\ last.tag = "ok" =>
        LET before == last.arg.seq
            after == last.val.data IN
        /\ Len(after) = Len(before)
        /\ \A i \in 1..Len(after) : after[i] \in 0..255
        /\ Cardinality(ChangedBits(before, after)) <= 1
        /\ last.val.flipped <=> Cardinality(ChangedBits(before, after)) = 1
        /\ ~last.val.flipped <=> after = before
        /\ before = <<>> => ~last.val.flipped

\* C17 witness: maybe_corrupt has returned true for a buffer of two bytes whose
\* first byte was 255 and is not any more.
C17_Witness ==
    /\ last.op = "maybe_corrupt" /\ last.tag = "ok"
    /\ last.val.flipped
    /\ Len(last.arg.seq) = 2 /\ last.arg.seq[1] = 255
    /\ last.val.data[1] # 255 /\ last.val.data[2] = last.arg.seq[2]

\* 1 when the call recorded in c is the decision op and returned yes (true
\* for should_fail and should_crash, a delay for maybe_delay_ns), else 0.
Injected(c, op) ==
    IF c.op = op /\ c.tag = "ok"
       /\ (IF op = "maybe_delay_ns" THEN c.val.seq # None ELSE c.val = BoolV(TRUE))
    THEN 1 ELSE 0

\* C18: no step of the injector (a decision, stats, config, set_config,
\* set_enabled) lowers the fault, delay or crash counter; after a call that
\* returns, the fault counter is one higher exactly when the call was a
\* should_fail that returned true, the delay counter exactly when it was a
\* maybe_delay_ns that returned a delay, the crash counter exactly when it was
\* a should_crash that returned true, and each counter is otherwise as it was.
C18_CountersGrowWithTheirDecision ==
    [][ /\ fault'.faults_injected_count >= fault.faults_injected_count
        /\ fault'.delays_injected_count >= fault.delays_injected_count
        /\ fault'.crashes_injected_count >= fault.crashes_injected_count
        /\ last'.tag = "ok" =>
              /\ fault'.faults_injected_count =
                    fault.faults_injected_count + Injected(last', "should_fail")
              /\ fault'.delays_injected_count =
                    fault.delays_injected_count + Injected(last', "maybe_delay_ns")
              /\ fault'.crashes_injected_count =
                    fault.crashes_injected_count + Injected(last', "should_crash")
      ]_vars

\* C18 witness: should_crash has returned true on an injector that had
\* injected a fault before; the crash counter is 1, the fault counter is
\* still 1 and the delay counter still 0.
C18_Witness ==
    /\ last.op = "should_crash" /\ last.tag = "ok" /\ last.val = BoolV(TRUE)
    /\ fault.crashes_injected_count = 1
    /\ fault.faults_injected_count = 1
    /\ fault.delays_injected_count = 0

C20_SwitchesToAnotherThread ==
    [][ (sched.threads_count >= 2 /\ last'.tag = "ok"
         /\ last'.op \in {"decide", "force_switch"}) =>
            LET switched == last'.op = "force_switch" \/ last'.val.kind = "SwitchTo"
                t == IF last'.op = "force_switch" THEN last'.val.int
                     ELSE last'.val.thread IN
            /\ switched =>
                  /\ t # sched.current_thread
                  /\ 0 <= t /\ t < sched.threads_count
                  /\ sched'.current_thread = t
            /\ ~switched => sched'.current_thread = sched.current_thread ]_vars

\* C20 witness: the first force_switch of a scheduler has drawn the current
\* thread, drawn again and returned another thread, which is now current.
C20_Witness ==
    /\ last.op = "force_switch" /\ last.tag = "ok"
    /\ sched.threads_count >= 2
    /\ sched.decisions_count = 1 /\ sched.rng.calls = 2
    /\ last.val.int # last.arg.int
    /\ sched.current_thread = last.val.int

\* C21: remove_thread(i) with i < threads_count and threads_count > 1 returns,
\* lowers threads_count by exactly one and makes current_thread i - 1 if i
\* was current and i > 0, 0 if i was current and i = 0, one less if i was
\* below the current thread, and leaves it if i was above; with one thread
\* left the call is rejected and the scheduler is as before.
C21_RemoveThreadAdjustsCurrent ==
    [][ last'.op = "remove_thread" =>
            LET i == last'.arg.int
                cur == sched.current_thread IN
            /\ (i < sched.threads_count /\ sched.threads_count > 1) =>
                  /\ last'.tag = "ok"
                  /\ sched'.threads_count = sched.threads_count - 1
                  /\ (i = cur /\ i > 0) => sched'.current_thread = i - 1
                  /\ (i = cur /\ i = 0) => sched'.current_thread = 0
                  /\ i < cur => sched'.current_thread = cur - 1
                  /\ i > cur => sched'.current_thread = cur
            /\ sched.threads_count = 1 =>
                  last'.tag = "panic" /\ sched' = sched ]_vars

\* C21 witness: thread 1 of four has been removed while thread 3 was current;
\* three threads are left and the current thread is 2.
C21_Witness ==
    /\ last.op = "remove_thread" /\ last.tag = "ok" /\ last.arg.int = 1
    /\ sched.threads_count = 3 /\ sched.current_thread = 2

(***************************************************************************)
(* Claims about the DstEnv (under SpecEnv)                                 *)
(***************************************************************************)
\* C22: in every environment a constructor returned, the rng component's seed
\* is the first value of a master generator seeded with the environment's
\* seed, the fault injector's the second and the scheduler's (when there is
\* one) the third; environments of the same seed from different constructors
\* have the same rng and fault seeds; and a fresh environment's generators
\* have counted no call.
C22_ComponentSeedsFromMaster ==
    /\ \A e \in {env, env2} :
          /\ e.rng.seed = Xoshiro_next_u64(e.seed, 0)
          /\ e.fault.rng.seed = Xoshiro_next_u64(e.seed, 1)
          /\ e.scheduler # None =>
                e.scheduler[1].rng.seed = Xoshiro_next_u64(e.seed, 2)
    /\ \A n \in NewEnvs :
          /\ n.seed = env.seed =>
                n.rng.seed = env.rng.seed /\ n.fault.rng.seed = env.fault.rng.seed
          /\ n.rng.calls = 0 /\ n.fault.rng.calls = 0
          /\ n.scheduler # None => n.scheduler[1].rng.calls = 0
    /\ (last = NoCall /\ pending = None) => env.rng.calls = 0

\* C22 witness: an environment with a scheduler, after calls on its rng
\* component, whose three generators have three different seeds.
C22_Witness ==
    /\ env.scheduler # None
    /\ env.rng.calls > 0
    /\ env.rng.seed # env.fault.rng.seed
    /\ env.scheduler[1].rng.seed # env.rng.seed
    /\ env.scheduler[1].rng.seed # env.fault.rng.seed
    /\ \E n \in NewEnvs : n.seed = env.seed /\ n.scheduler = None

\* C23: step(0) is rejected and leaves the environment, its fault injector
\* included, as it was; step(d) with d > 0 that the clock has room for moves
\* the clock by exactly d, whatever the fault decision, and takes one
\* should_fail decision (one counted call on the injector's generator when
\* enabled, none when disabled, the delay and crash counters and the rng
\* component untouched); a step that returns reports true exactly when the
\* fault counter is one higher and false exactly when it is as before.
C23_StepAdvancesThenDecides ==
    [][ (pending = None /\ last'.op = "step") =>
            LET d == last'.arg.int IN
            /\ d = 0 => last'.tag = "panic" /\ env' = env
            /\ (d > 0 /\ env.clock <= TIME_NS_MAX - d) =>
                  /\ env'.clock = env.clock + d
                  /\ env'.fault.rng.calls =
                        env.fault.rng.calls
                        + (IF env.fault.config.enabled THEN 1 ELSE 0)
                  /\ env'.fault.delays_injected_count = env.fault.delays_injected_count
                  /\ env'.fault.crashes_injected_count = env.fault.crashes_injected_count
                  /\ env'.rng = env.rng /\ env'.scheduler = env.scheduler
            /\ last'.tag = "ok" =>
                  /\ d > 0 /\ env'.clock = env.clock + d
                  /\ last'.val = BoolV(TRUE) <=>
                        env'.fault.faults_injected_count =
                            env.fault.faults_injected_count + 1
                  /\ last'.val = BoolV(FALSE) <=>
                        env'.fault.faults_injected_count =
                            env.fault.faults_injected_count ]_vars

\* C23 witness: the second step(20) of an environment has reported the second
\* failure; the clock stands at 40.
C23_Witness ==
    /\ pending # None /\ last.op = "step" /\ last.tag = "ok"
    /\ last.arg.int = 20 /\ last.val = BoolV(TRUE)
    /\ env.clock = 40 /\ env.fault.faults_injected_count = 2

\* C24: maybe_delay asks the fault injector once for a delay; when the
\* injector returns Some(d), d is between 1 and delay_ns_max and the clock,
\* having room for it, is d further and the call returns; when the injector
\* returns None the call returns with the clock where it was; the clock is
\* never asked for an advance of 0.
C24_MaybeDelayAdvancesByDelay ==
    [][ (pending = None /\ last'.op = "maybe_delay") =>
            LET r == FaultInjector_maybe_delay_ns(env.fault) IN
            /\ env'.fault = r.st
            /\ env'.rng = env.rng /\ env'.scheduler = env.scheduler
            /\ (r.out.tag = "ok" /\ r.out.val # None) =>
                  LET d == r.out.val[1] IN
                  /\ 1 <= d /\ d <= env.fault.config.delay_ns_max
                  /\ env.clock <= TIME_NS_MAX - d =>
                        last'.tag = "ok" /\ env'.clock = env.clock + d
            /\ (r.out.tag = "ok" /\ r.out.val = None) =>
                  last'.tag = "ok" /\ env'.clock = env.clock
            /\ r.out.tag = "panic" =>
                  last'.tag = "panic" /\ env'.clock = env.clock ]_vars

\* C24 witness: maybe_delay has injected a delay shorter than delay_ns_max and
\* the clock, which had been advanced before, has moved by less than
\* delay_ns_max beyond 20.
C24_Witness ==
    /\ pending # None /\ last.op = "maybe_delay" /\ last.tag = "ok"
    /\ env.fault.delays_injected_count = 1
    /\ env.clock > 20 /\ env.clock < 20 + env.fault.config.delay_ns_max

\* What C25 says of one fork: parent is the generator before the call,
\* parent_ after it, c the call's record (its value the child).
ForkedFrom(parent, parent_, c) ==
    /\ parent_.calls = parent.calls + 1
    /\ parent_.seed = parent.seed
    /\ c.tag = "ok" =>
          /\ parent_.pos = parent.pos + 1
          /\ c.val.seed = Xoshiro_next_u64(parent.seed, parent.pos)
          /\ c.val.calls = 0 /\ c.val.pos = 0

\* C25: a fork counts one call on the parent, draws one value from it and
\* returns a generator seeded with that value whose call count is 0;
\* fork_rng does this on the environment's rng component and leaves the
\* clock, the fault injector and the scheduler as they were; a call on a
\* child leaves the environment and the other children as they were, and a
\* call on the environment leaves the children as they were.
C25_ForkDrawsOneSeed ==
    [][ /\ (pending = None /\ last'.op = "fork_rng") =>
              /\ ForkedFrom(env.rng, env'.rng, last')
              /\ env'.fault = env.fault /\ env'.scheduler = env.scheduler
              /\ env'.clock = env.clock /\ env'.seed = env.seed
              /\ SubSeq(forked', 1, Len(forked)) = forked
              /\ last'.tag = "ok" => forked' = Append(forked, last'.val)
        /\ last'.op = "child.fork" =>
              LET i == last'.arg.int IN
              /\ ForkedFrom(forked[i], forked'[i], last')
              /\ env' = env /\ env2' = env2
              /\ \A j \in 1..Len(forked) : j # i => forked'[j] = forked[j]
              /\ last'.tag = "ok" =>
                    forked' = Append([forked EXCEPT ![i] = forked'[i]], last'.val)
        /\ last'.op \notin {"fork_rng", "child.fork"} => forked' = forked ]_vars

\* C25 witness: a generator returned by fork_rng has been forked itself; the
\* environment's rng component has been drawn from since, and the first child
\* still stands after its one call.
C25_Witness ==
    /\ Len(forked) = 2
    /\ forked[1].seed = Xoshiro_next_u64(env.rng.seed, 0)
    /\ forked[2].seed = Xoshiro_next_u64(forked[1].seed, 0)
    /\ forked[1].calls = 1 /\ forked[2].calls = 0
    /\ env.rng.calls >= 2
    /\ last.op = "rng.gen" /\ last.tag = "ok"

(***************************************************************************)
(* Claims about the DeterministicRng (under SpecRng)                       *)
(***************************************************************************)
\* C26: whatever was called before, reset returns and leaves the generator
\* as DeterministicRng::new of the same seed builds it: the seed is
\* unchanged, calls_count is 0, the next output is the first of the seed's
\* output sequence and the one after it the second; a second reset changes
\* nothing; the generators forked earlier are untouched.
C26_ResetRestoresFreshGenerator ==
    [][ last'.op = "reset" =>
            /\ last'.tag = "ok"
            /\ rng'.seed = rng.seed /\ rng'.calls = 0
            /\ rng' = DeterministicRng_new(rng.seed).st
            /\ DeterministicRng_gen(rng').out = Ok(Xoshiro_next_u64(rng.seed, 0))
            /\ DeterministicRng_gen(DeterministicRng_gen(rng').st).out =
                  Ok(Xoshiro_next_u64(rng.seed, 1))
            /\ DeterministicRng_reset(rng').st = rng'
            /\ forked' = forked ]_vars

\* C26 witness: a generator that had been forked, and so drawn from, has been
\* reset.
C26_Witness ==
    /\ last.op = "reset" /\ last.tag = "ok"
    /\ Len(forked) >= 1
    /\ rng.calls = 0

(***************************************************************************)
(* Claims about the SimClock (under SpecClock)                             *)
(***************************************************************************)
\* C27: sleep_ns(0) and sleep_ms(0) return and leave the clock where it was,
\* while advance_ns(0) is rejected; sleep_ns(d) and sleep_ms(d) with d > 0
\* end as advance_ns(d) and advance_ms(d) end from the same time (returned or
\* rejected, and the same time afterwards), which for a duration the clock
\* has room for is the time plus d nanoseconds, plus d milliseconds.
C27_SleepIsAdvanceButForZero ==
    [][ LET d == last'.arg.int IN
        /\ (last'.op \in {"sleep_ns", "sleep_ms"} /\ d = 0) =>
              last'.tag = "ok" /\ clock' = clock
        /\ (last'.op = "advance_ns" /\ d = 0) =>
              last'.tag = "panic" /\ clock' = clock
        /\ (last'.op = "sleep_ns" /\ d > 0) =>
              /\ last'.tag = SimClock_advance_ns(clock, d).out.tag
              /\ clock' = SimClock_advance_ns(clock, d).st
              /\ clock + d <= TIME_NS_MAX =>
                    last'.tag = "ok" /\ clock' = clock + d
        /\ (last'.op = "sleep_ms" /\ d > 0) =>
              /\ last'.tag = SimClock_advance_ms(clock, d).out.tag
              /\ clock' = SimClock_advance_ms(clock, d).st
              /\ clock + d * NS_PER_MS <= TIME_NS_MAX =>
                    last'.tag = "ok" /\ clock' = clock + d * NS_PER_MS ]_vars

\* C27 witness: sleep_ns(0) has returned on a clock that is not at 0.
C27_Witness ==
    /\ last.op = "sleep_ns" /\ last.arg.int = 0 /\ last.tag = "ok"
    /\ clock > 0

(***************************************************************************)
(* SpecAdvancing: threads calling advance_ns on one shared SimClock, each  *)
(* call a load with its assertions and then a fetch_add, and a reader      *)
(***************************************************************************)
\* The number of threads that advance the clock, one call each.
MaxAdvancers == 2
Advancers == 1..MaxAdvancers
\* The times the shared clock starts at, and the deltas offered.
AdvancingStarts == {0, 5}
AdvancingDeltas == {0, 1, 20, 40}

AdvancingInit ==
    /\ clock \in {SimClock_with_start_time_ns(s).st : s \in AdvancingStarts}
    /\ advancing = [start |-> clock,
                    threads |-> [t \in Advancers |->
                                    [pc |-> "idle", delta_ns |-> 0, current |-> 0]]]
    /\ rng = Unused /\ forked = Unused /\ fault = Unused /\ sched = Unused
    /\ env = Unused /\ env2 = Unused /\ pending = Unused
    /\ stack = Unused /\ checker = Unused
    /\ check_all_results = Unused /\ summary = Unused
    /\ treiber = Unused /\ ssi = Unused /\ raft = Unused /\ picking = Unused
    /\ last = NoCall

AdvancingFrame ==
    UNCHANGED <<rng, forked, fault, sched, env, env2, pending, stack, checker,
                check_all_results, summary, treiber, ssi, raft, picking>>

\* A thread enters advance_ns(d): the assertion on d, the load, the assertion
\* on the value loaded.
Adv_load ==
    /\ \E t \in Advancers, d \in AdvancingDeltas :
          /\ advancing.threads[t].pc = "idle"
          /\ LET r == SimClock_advance_ns_check(clock, d) IN
             /\ advancing' =
                   [advancing EXCEPT !.threads[t] =
                       IF r.tag = "ok"
                       THEN [pc |-> "loaded", delta_ns |-> d, current |-> clock]
                       ELSE [pc |-> "panicked", delta_ns |-> 0, current |-> 0]]
             /\ last' = [op |-> "advance_ns.load", arg |-> IntV(d),
                         tag |-> r.tag, val |-> NoV]
    /\ UNCHANGED clock /\ AdvancingFrame

\* The thread's fetch_add; advance_ns returns.
Adv_fetch_add ==
    /\ \E t \in Advancers :
          /\ advancing.threads[t].pc = "loaded"
          /\ clock' = SimClock_fetch_add(clock, advancing.threads[t].delta_ns)
          /\ advancing' = [advancing EXCEPT !.threads[t].pc = "done"]
          /\ last' = CallUnit("advance_ns", IntV(advancing.threads[t].delta_ns), Ok(0))
    /\ AdvancingFrame

\* A reader's now_ns().
Adv_now_ns ==
    /\ last' = CallInt("now_ns", NoV, Ok(SimClock_now_ns(clock)))
    /\ UNCHANGED <<clock, advancing,
                treiber, ssi, raft, picking>> /\ AdvancingFrame

AdvancingNext == Adv_load \/ Adv_fetch_add \/ Adv_now_ns

SpecAdvancing == AdvancingInit /\ [][AdvancingNext]_vars

\* The sum of the deltas of the threads in S.
RECURSIVE DeltaSum(_)
DeltaSum(S) ==
    IF S = {} THEN 0
    ELSE LET t == CHOOSE x \in S : TRUE IN
         advancing.threads[t].delta_ns + DeltaSum(S \ {t})

\* The threads whose advance_ns has returned.
Advanced == {t \in Advancers : advancing.threads[t].pc = "done"}

\* C28: when every advance_ns has ended, the time is the start time plus the
\* sum of the deltas of the calls that returned; and what a reader saw is the
\* start time plus the sum of the deltas of some of them.
C28_NoAdvanceLost ==
    /\ (\A t \in Advancers : advancing.threads[t].pc \in {"done", "panicked"}) =>
          clock = advancing.start + DeltaSum(Advanced)
    /\ last.op = "now_ns" =>
          \E S \in SUBSET Advanced : last.val.int = advancing.start + DeltaSum(S)

\* What holds of the code instead: the time is the start time plus the sum of
\* the deltas of the calls that returned, modulo 2^64 (here 2^6), at every
\* moment; no fetch_add is lost, but the sum is not kept below TIME_NS_MAX.
C28_NoAdvanceLostModuloWrap ==
    clock = (advancing.start + DeltaSum(Advanced)) % (U64_MAX + 1)

(***************************************************************************)
(* Further claims about the StackPropertyChecker (under SpecChecker)       *)
(***************************************************************************)
\* The positions of the sequence q at which e stands.
Positions(e, q) == {i \in 1..Len(q) : q[i] = e}

\* What C29 says of one NoDuplicates result r of the stack s.
NoDuplicatesExact(r, s) ==
    /\ r.name = "NoDuplicates"
    /\ r.holds <=>
          \A i, j \in 1..Len(s.contents) :
              i # j => s.contents[i] # s.contents[j]
    /\ ~r.holds =>
          /\ r.violation # None
          /\ r.violation[1].text = "Element {} appears multiple times in stack"
          /\ Cardinality(Positions(r.violation[1].element, s.contents)) >= 2

\* C29: the NoDuplicates result holds exactly when no value stands at two
\* positions of the current contents; a failing result's violation text
\* names a value that stands at two positions or more.
C29_NoDuplicatesExact ==
    /\ LET r == StackPropertyChecker_check_no_duplicates(stack) IN
       r.tag = "ok" /\ NoDuplicatesExact(r.val, stack)
    /\ last.op = "check_all" /\ last.tag = "ok" =>
          NoDuplicatesExact(last.val.results[2], stack)

\* C29 witness: check_all has reported the value 2, which is twice in the
\* contents of a stack that lost no element.
C29_Witness ==
    /\ last.op = "check_all" /\ last.tag = "ok"
    /\ last.val.results[1].holds
    /\ ~last.val.results[2].holds
    /\ last.val.results[2].violation[1].element = 2
    /\ stack.contents = <<2, 2>>

(***************************************************************************)
(* SpecTestStack: the reference TestStack from new(), through pushes of    *)
(* values that are not in it and pops, with the checker looking at it      *)
(***************************************************************************)
\* The longest sequence of pushes and pops.
MaxStackOps == 5
\* The values pushed (the crate's test pushes 1, 2, 3).
TestStackElems == {1, 2, 3}

TestStackInit ==
    /\ stack = TestStack_new
    /\ checker = StackPropertyChecker_new
    /\ clock = Unused /\ rng = Unused /\ forked = Unused /\ fault = Unused
    /\ sched = Unused /\ env = Unused /\ env2 = Unused /\ pending = Unused
    /\ check_all_results = Unused /\ summary = Unused /\ advancing = Unused
    /\ treiber = Unused /\ ssi = Unused /\ raft = Unused /\ picking = Unused
    /\ last = NoCall

TestStackFrame ==
    UNCHANGED <<clock, rng, forked, fault, sched, env, env2, pending,
                check_all_results, summary, advancing,
                treiber, ssi, raft, picking>>

\* push of a value that is not in the stack.
Tst_push ==
    /\ Len(stack.history.operations) < MaxStackOps
    /\ \E v \in TestStackElems :
          /\ v \notin SeqToSet(stack.contents)
          /\ LET r == TestStack_push(stack, v) IN
             stack' = r.st /\ last' = CallUnit("push", IntV(v), r.out)
    /\ UNCHANGED checker /\ TestStackFrame

\* pop, of the empty stack as well.
Tst_pop ==
    /\ Len(stack.history.operations) < MaxStackOps
    /\ LET r == TestStack_pop(stack) IN
       stack' = r.st /\ last' = CallSeq("pop", NoV, r.out)
    /\ UNCHANGED checker /\ TestStackFrame

Tst_check_all ==
    /\ \E first \in FirstLost(stack) :
          LET r == StackPropertyChecker_check_all(stack, checker, first) IN
          last' = [op |-> "check_all", arg |-> NoV, tag |-> r.tag,
                   val |-> IF r.tag = "ok" THEN [results |-> r.val] ELSE NoV]
    /\ UNCHANGED <<stack, checker>> /\ TestStackFrame

Tst_all_hold ==
    /\ \E first \in FirstLost(stack) :
          LET r == StackPropertyChecker_check_all(stack, checker, first) IN
          last' = CallBool("all_hold", NoV,
                           IF r.tag = "ok" THEN Ok(PropertyChecker_all_hold(r.val))
                           ELSE Panic)
    /\ UNCHANGED <<stack, checker>> /\ TestStackFrame

TestStackNext == Tst_push \/ Tst_pop \/ Tst_check_all \/ Tst_all_hold

SpecTestStack == TestStackInit /\ [][TestStackNext]_vars

\* C30: after every sequence of pushes of values not in the stack and of
\* pops, the empty stack's included, check_all returns five results that
\* all hold and all_hold returns true.
C30_CorrectStackPassesAll ==
    /\ \A first \in FirstLost(stack) :
          LET r == StackPropertyChecker_check_all(stack, checker, first) IN
          /\ r.tag = "ok" /\ Len(r.val) = 5
          /\ \A i \in 1..5 : r.val[i].holds
    /\ last.op = "all_hold" => last.tag = "ok" /\ last.val = BoolV(TRUE)
    /\ last.op = "check_all" =>
          last.tag = "ok" /\ \A i \in 1..5 : last.val.results[i].holds

\* C30 witness: all_hold has returned true after five operations, among them
\* a pop of the empty stack, with a value that was popped back in the stack.
C30_Witness ==
    /\ last.op = "all_hold" /\ last.tag = "ok" /\ last.val = BoolV(TRUE)
    /\ Len(stack.history.operations) = 5
    /\ \E i \in 1..5 : stack.history.operations[i].op_type = "PopEmpty"
    /\ \E v \in stack.popped : v \in SeqToSet(stack.contents)

(***************************************************************************)
(* Treiber stack model (vf-stateright/src/treiber_stack.rs)                *)
(*                                                                         *)
(* A ThreadState is a record with the fields of all the variants; the      *)
(* fields a variant does not have are None or 0.  StackState.nodes is a    *)
(* function from the node ids allocated so far to Node records.            *)
(***************************************************************************)

ThreadState_Idle ==
    [state |-> "Idle", node_id |-> 0, value |-> 0,
     observed_head |-> None, next |-> None]
ThreadState_PushAllocated(node_id, value) ==
    [state |-> "PushAllocated", node_id |-> node_id, value |-> value,
     observed_head |-> None, next |-> None]
ThreadState_PushReadHead(node_id, value, observed_head) ==
    [state |-> "PushReadHead", node_id |-> node_id, value |-> value,
     observed_head |-> observed_head, next |-> None]
ThreadState_PopReadHead(observed_head, value, next) ==
    [state |-> "PopReadHead", node_id |-> 0, value |-> value,
     observed_head |-> Some(observed_head), next |-> next]

\* StackState::new(threads_count): Panic outside 1..8.
StackState_new(threads_count) ==
    IF threads_count > 0 /\ threads_count <= 8
    THEN Ok([head |-> None,
             nodes |-> [n \in {} |-> 0],
             node_id_next |-> 0,
             pushed |-> {},
             popped |-> {},
             threads |-> [tid \in 0..(threads_count - 1) |-> ThreadState_Idle]])
    ELSE Panic

\* The node ids met by the loop of contents() from `current`, at most `fuel`
\* of them: the loop stops at None and at an id that is not in nodes.
RECURSIVE Walk(_, _, _)
Walk(s, current, fuel) ==
    IF fuel = 0 \/ current = None \/ current[1] \notin DOMAIN s.nodes
    THEN <<>>
    ELSE <<current[1]>> \o Walk(s, s.nodes[current[1]].next, fuel - 1)

\* contents() returns when the walk from head ends, which it does within as
\* many nodes as there are; on a cyclic list it does not return.
StackState_terminates(s) ==
    Len(Walk(s, s.head, Cardinality(DOMAIN s.nodes) + 1)) <= Cardinality(DOMAIN s.nodes)

StackState_contents(s) ==
    LET ids == Walk(s, s.head, Cardinality(DOMAIN s.nodes)) IN
    [i \in 1..Len(ids) |-> s.nodes[ids[i]].value]

StackState_no_lost_elements(s) ==
    LET contents == SeqToSet(StackState_contents(s)) IN
    \A element \in s.pushed : ~(element \notin contents /\ element \notin s.popped)

StackState_no_duplicates(s) ==
    LET contents == StackState_contents(s) IN
    Len(contents) = Cardinality(SeqToSet(contents))

StackModel_new(threads_count, values) ==
    IF threads_count > 0 /\ values # {}
    THEN Ok([threads_count |-> threads_count, values |-> values,
             operations_per_thread_max |-> 4])
    ELSE Panic

\* actions() offering a push of a value that another thread is pushing.
StackModel_actions_ignoring_in_flight(model, s) ==
    UNION {
        IF s.threads[tid].state = "Idle"
        THEN {[type |-> "PushAlloc", thread |-> tid, value |-> value] :
                 value \in {v \in model.values : v \notin s.pushed}}
             \cup (IF s.head # None
                   THEN {[type |-> "PopReadHead", thread |-> tid, value |-> 0]}
                   ELSE {})
        ELSE IF s.threads[tid].state = "PushAllocated"
        THEN {[type |-> "PushReadHead", thread |-> tid, value |-> 0]}
        ELSE IF s.threads[tid].state = "PushReadHead"
        THEN {[type |-> "PushCas", thread |-> tid, value |-> 0]}
        ELSE {[type |-> "PopCas", thread |-> tid, value |-> 0]}
        : tid \in DOMAIN s.threads}

\* actions(): what each thread may do next.
StackModel_actions(model, s) ==
    LET in_flight == {s.threads[t].value : t \in
                        {u \in DOMAIN s.threads :
                            s.threads[u].state \in {"PushAllocated", "PushReadHead"}}}
    IN UNION {
        IF s.threads[tid].state = "Idle"
        THEN {[type |-> "PushAlloc", thread |-> tid, value |-> value] :
                 value \in {v \in model.values : v \notin s.pushed /\ v \notin in_flight}}
             \cup (IF s.head # None
                   THEN {[type |-> "PopReadHead", thread |-> tid, value |-> 0]}
                   ELSE {})
        ELSE IF s.threads[tid].state = "PushAllocated"
        THEN {[type |-> "PushReadHead", thread |-> tid, value |-> 0]}
        ELSE IF s.threads[tid].state = "PushReadHead"
        THEN {[type |-> "PushCas", thread |-> tid, value |-> 0]}
        ELSE {[type |-> "PopCas", thread |-> tid, value |-> 0]}
        : tid \in DOMAIN s.threads}

\* next_state, one operator for each StackAction.
StackModel_PushAlloc(s, thread, value) ==
    LET node_id == s.node_id_next IN
    [s EXCEPT !.node_id_next = s.node_id_next + 1,
              !.nodes = [n \in DOMAIN s.nodes \cup {node_id} |->
                            IF n = node_id THEN [value |-> value, next |-> None]
                            ELSE s.nodes[n]],
              !.threads[thread] = ThreadState_PushAllocated(node_id, value)]

StackModel_PushReadHead(s, thread) ==
    IF s.threads[thread].state = "PushAllocated"
    THEN LET node_id == s.threads[thread].node_id
             value == s.threads[thread].value
             with_next == IF node_id \in DOMAIN s.nodes
                          THEN [s.nodes EXCEPT ![node_id].next = s.head]
                          ELSE s.nodes
         IN [s EXCEPT !.nodes = with_next,
                      !.threads[thread] =
                          ThreadState_PushReadHead(node_id, value, s.head)]
    ELSE s

\* A PushCas that gives the push up when the CAS fails.
StackModel_PushCas_giving_up(s, thread) ==
    IF s.threads[thread].state = "PushReadHead"
    THEN LET ts == s.threads[thread] IN
         IF s.head = ts.observed_head
         THEN [s EXCEPT !.head = Some(ts.node_id),
                        !.pushed = s.pushed \cup {ts.value},
                        !.threads[thread] = ThreadState_Idle]
         ELSE [s EXCEPT !.threads[thread] = ThreadState_Idle]
    ELSE s

StackModel_PushCas(s, thread) ==
    IF s.threads[thread].state = "PushReadHead"
    THEN LET ts == s.threads[thread] IN
         IF s.head = ts.observed_head
         THEN [s EXCEPT !.head = Some(ts.node_id),
                        !.pushed = s.pushed \cup {ts.value},
                        !.threads[thread] = ThreadState_Idle]
         ELSE [s EXCEPT !.threads[thread] =
                            ThreadState_PushAllocated(ts.node_id, ts.value)]
    ELSE s

\* A PopReadHead that records no next pointer.
StackModel_PopReadHead_without_next(s, thread) ==
    IF s.head # None /\ s.head[1] \in DOMAIN s.nodes
    THEN LET node == s.nodes[s.head[1]] IN
         [s EXCEPT !.threads[thread] =
                       ThreadState_PopReadHead(s.head[1], node.value, None)]
    ELSE s

StackModel_PopReadHead(s, thread) ==
    IF s.head # None /\ s.head[1] \in DOMAIN s.nodes
    THEN LET node == s.nodes[s.head[1]] IN
         [s EXCEPT !.threads[thread] =
                       ThreadState_PopReadHead(s.head[1], node.value, node.next)]
    ELSE s

\* A PopCas that sets head to None whatever the thread read as next.
StackModel_PopCas_dropping_the_rest(s, thread) ==
    IF s.threads[thread].state = "PopReadHead"
    THEN LET ts == s.threads[thread] IN
         IF s.head = ts.observed_head
         THEN [s EXCEPT !.head = None,
                        !.popped = s.popped \cup {ts.value},
                        !.threads[thread] = ThreadState_Idle]
         ELSE [s EXCEPT !.threads[thread] = ThreadState_Idle]
    ELSE s

StackModel_PopCas(s, thread) ==
    IF s.threads[thread].state = "PopReadHead"
    THEN LET ts == s.threads[thread] IN
         IF s.head = ts.observed_head
         THEN [s EXCEPT !.head = ts.next,
                        !.popped = s.popped \cup {ts.value},
                        !.threads[thread] = ThreadState_Idle]
         ELSE [s EXCEPT !.threads[thread] = ThreadState_Idle]
    ELSE s

(***************************************************************************)
(* Specification SpecTreiber: the StackModel of every thread count and     *)
(* value set within the bounds, explored as the stateright checker         *)
(* explores it: from init_states, by the actions actions() offers.         *)
(* treiber.changed is a history variable: the threads whose read of head   *)
(* has been followed by another thread's CAS that changed head.            *)
(***************************************************************************)

\* number of threads of the largest model
MaxTreiberThreads == 2
\* the largest value set is 1..MaxTreiberValues
MaxTreiberValues == 2

TreiberInit ==
    /\ \E threads_count \in 1..MaxTreiberThreads, k \in 1..MaxTreiberValues :
          treiber = [model |-> StackModel_new(threads_count, 1..k).val,
                     state |-> StackState_new(threads_count).val,
                     changed |-> {}]
    /\ clock = Unused /\ rng = Unused /\ forked = Unused /\ fault = Unused
    /\ sched = Unused /\ env = Unused /\ env2 = Unused /\ pending = Unused
    /\ stack = Unused /\ checker = Unused
    /\ check_all_results = Unused /\ summary = Unused /\ advancing = Unused
    /\ ssi = Unused /\ raft = Unused /\ picking = Unused
    /\ last = NoCall

TreiberFrame ==
    UNCHANGED <<clock, rng, forked, fault, sched, env, env2, pending, stack,
                checker, check_all_results, summary, advancing, ssi, raft,
                picking>>

Offered(type) ==
    {a \in StackModel_actions(treiber.model, treiber.state) : a.type = type}

\* The step record: the action taken; for a CAS, whether it succeeded; and
\* whether head had been changed by another thread since this thread's read.
StepOf(a, succeeded) ==
    [op |-> a.type, arg |-> IntV(a.thread), tag |-> "ok", val |-> BoolV(succeeded),
     changed |-> a.thread \in treiber.changed]

\* The history variable after thread `thread` has taken a step that leaves
\* head at `head_`: the thread itself has no read outstanding, and if head
\* changed every other thread with a read outstanding has seen it change.
ChangedAfter(thread, head_) ==
    (treiber.changed \ {thread})
    \cup (IF head_ # treiber.state.head
          THEN {t \in DOMAIN treiber.state.threads :
                  /\ t # thread
                  /\ treiber.state.threads[t].state \in {"PushReadHead", "PopReadHead"}}
          ELSE {})

Trb_PushAlloc(thread) ==
    /\ \E a \in Offered("PushAlloc") :
          /\ a.thread = thread
          /\ LET n == StackModel_PushAlloc(treiber.state, a.thread, a.value) IN
             /\ treiber' = [treiber EXCEPT !.state = n,
                                           !.changed = ChangedAfter(thread, n.head)]
             /\ last' = StepOf(a, TRUE)
    /\ TreiberFrame

Trb_PushReadHead(thread) ==
    /\ \E a \in Offered("PushReadHead") :
          /\ a.thread = thread
          /\ LET n == StackModel_PushReadHead(treiber.state, a.thread) IN
             /\ treiber' = [treiber EXCEPT !.state = n,
                                           !.changed = ChangedAfter(thread, n.head)]
             /\ last' = StepOf(a, TRUE)
    /\ TreiberFrame

Trb_PushCas(thread) ==
    /\ \E a \in Offered("PushCas") :
          /\ a.thread = thread
          /\ LET n == StackModel_PushCas(treiber.state, a.thread) IN
             /\ treiber' = [treiber EXCEPT !.state = n,
                                           !.changed = ChangedAfter(thread, n.head)]
             /\ last' = StepOf(a, n.threads[thread].state = "Idle")
    /\ TreiberFrame

Trb_PopReadHead(thread) ==
    /\ \E a \in Offered("PopReadHead") :
          /\ a.thread = thread
          /\ LET n == StackModel_PopReadHead(treiber.state, a.thread) IN
             /\ treiber' = [treiber EXCEPT !.state = n,
                                           !.changed = ChangedAfter(thread, n.head)]
             /\ last' = StepOf(a, TRUE)
    /\ TreiberFrame

Trb_PopCas(thread) ==
    /\ \E a \in Offered("PopCas") :
          /\ a.thread = thread
          /\ LET n == StackModel_PopCas(treiber.state, a.thread) IN
             /\ treiber' = [treiber EXCEPT !.state = n,
                                           !.changed = ChangedAfter(thread, n.head)]
             /\ last' = StepOf(a, treiber.state.head =
                                    treiber.state.threads[thread].observed_head)
    /\ TreiberFrame

TreiberThreads == 0..(MaxTreiberThreads - 1)

ThreadStep(thread) ==
    \/ Trb_PushAlloc(thread)
    \/ Trb_PushReadHead(thread)
    \/ Trb_PushCas(thread)
    \/ Trb_PopReadHead(thread)
    \/ Trb_PopCas(thread)

TreiberNext == \E thread \in TreiberThreads : ThreadStep(thread)

SpecTreiber == TreiberInit /\ [][TreiberNext]_vars

\* C31: in every reachable state of the model every pushed value is in the
\* list reachable from head or in popped (no_lost_elements() is true).
C31_NoLostElements ==
    /\ StackState_terminates(treiber.state)
    /\ StackState_no_lost_elements(treiber.state)

\* C31 witness: a value has been pushed and popped while another pushed value
\* is still in the stack, in a model of two threads.
C31_Witness ==
    /\ Cardinality(DOMAIN treiber.state.threads) = 2
    /\ treiber.state.popped # {}
    /\ \E v \in treiber.state.pushed :
          /\ v \notin treiber.state.popped
          /\ v \in SeqToSet(StackState_contents(treiber.state))

\* C32: in every reachable state of the model the walk from head ends (the
\* list is acyclic) and meets no value twice (no_duplicates() is true).
C32_NoDuplicates ==
    /\ StackState_terminates(treiber.state)
    /\ StackState_no_duplicates(treiber.state)

\* C32 witness: two values are in the stack, pushed by different threads.
C32_Witness ==
    /\ Len(StackState_contents(treiber.state)) = 2
    /\ last.op = "PushCas" /\ last.val = BoolV(TRUE)
    /\ Cardinality(DOMAIN treiber.state.threads) = 2
    /\ treiber.state.nodes[0].next # None

\* The nodes that have been published as head: a node is published by the
\* PushCas that puts its value in pushed, and no two nodes hold one value.
Published(s) == {n \in DOMAIN s.nodes : s.nodes[n].value \in s.pushed}

\* C37: no ABA.  A PushAlloc takes an id no node has, and nodes are never
\* removed; the next pointer (and the value) of a published node never
\* changes; a thread that has read head for a pop holds the value and the
\* next pointer the node it read has now, so a PopCas that succeeds
\* installs the current next pointer of the head node; popped is a subset
\* of pushed.
C37_NoAba ==
    /\ [](/\ treiber.state.popped \subseteq treiber.state.pushed
          /\ DOMAIN treiber.state.nodes = 0..(treiber.state.node_id_next - 1)
          /\ \A t \in DOMAIN treiber.state.threads :
                LET ts == treiber.state.threads[t] IN
                ts.state = "PopReadHead" =>
                   /\ ts.observed_head[1] \in Published(treiber.state)
                   /\ treiber.state.nodes[ts.observed_head[1]].next = ts.next
                   /\ treiber.state.nodes[ts.observed_head[1]].value = ts.value)
    /\ [][/\ DOMAIN treiber.state.nodes \subseteq DOMAIN treiber'.state.nodes
          /\ treiber'.state.node_id_next >= treiber.state.node_id_next
          /\ \A n \in Published(treiber.state) :
                treiber'.state.nodes[n] = treiber.state.nodes[n]
          /\ \A t \in DOMAIN treiber.state.threads :
                (/\ treiber.state.threads[t].state = "PopReadHead"
                 /\ treiber'.state.threads[t].state = "Idle"
                 /\ treiber.state.head = treiber.state.threads[t].observed_head)
                => treiber'.state.head =
                      treiber.state.nodes[treiber.state.head[1]].next]_vars

\* C37 witness: a PopCas has succeeded although head had changed, and
\* changed back, between the thread's read and its CAS.
C37_Witness ==
    /\ last.op = "PopCas" /\ last.val = BoolV(TRUE) /\ last.changed
    /\ treiber.state.popped = treiber.state.pushed
    /\ Cardinality(treiber.state.popped) = 2
    /\ treiber.state.threads[last.arg.int].state = "Idle"
    /\ treiber.state.nodes[1].next = Some(0)
    /\ treiber.state.head = None

\* the values of the model that test_model_checking_small checks
SmallModelValues == {1, 2}

\* Specification SpecTreiberFair: the models over values of the small model,
\* under weak fairness of every thread's step.
TreiberFairInit ==
    TreiberInit /\ treiber.model.values \subseteq SmallModelValues

SpecTreiberFair ==
    /\ TreiberFairInit /\ [][TreiberNext]_vars
    /\ \A thread \in TreiberThreads : WF_vars(ThreadStep(thread))

\* C38: a thread whose CAS would fail (head differs from what it read) has
\* had head changed by another thread since its read, and head is changed
\* by successful CASes only; a PushCas that fails leaves the thread
\* PushAllocated with the same node and value; and under weak fairness of
\* every thread's step a thread that is pushing value v is eventually Idle
\* with v in pushed.
C38_Progress ==
    /\ [](\A t \in DOMAIN treiber.state.threads :
             LET ts == treiber.state.threads[t] IN
             (ts.state \in {"PushReadHead", "PopReadHead"}
              /\ treiber.state.head # ts.observed_head) => t \in treiber.changed)
    /\ [][/\ treiber'.state.head # treiber.state.head =>
                /\ last'.op \in {"PushCas", "PopCas"} /\ last'.val = BoolV(TRUE)
                /\ treiber.state.threads[last'.arg.int].state
                      \in {"PushReadHead", "PopReadHead"}
                /\ treiber'.state.threads[last'.arg.int].state = "Idle"
                /\ treiber'.changed =
                      (treiber.changed \ {last'.arg.int})
                      \cup {t \in DOMAIN treiber.state.threads \ {last'.arg.int} :
                               treiber.state.threads[t].state
                                  \in {"PushReadHead", "PopReadHead"}}
          /\ treiber'.state.head = treiber.state.head =>
                treiber'.changed \subseteq treiber.changed
          /\ \A t \in DOMAIN treiber.state.threads :
                LET ts == treiber.state.threads[t] IN
                (/\ ts.state = "PushReadHead"
                 /\ treiber.state.head # ts.observed_head
                 /\ treiber'.state.threads[t] # ts)
                => treiber'.state.threads[t] =
                      ThreadState_PushAllocated(ts.node_id, ts.value)]_vars
    /\ \A t \in TreiberThreads : \A v \in 1..MaxTreiberValues :
          (/\ t \in DOMAIN treiber.state.threads
           /\ treiber.state.threads[t].state \in {"PushAllocated", "PushReadHead"}
           /\ treiber.state.threads[t].value = v)
          ~> (/\ t \in DOMAIN treiber.state.threads
              /\ treiber.state.threads[t].state = "Idle"
              /\ v \in treiber.state.pushed)

\* C38 witness: a PushCas has failed and the thread is PushAllocated with the
\* node it had, while the other thread's push of another value is complete.
C38_Witness ==
    /\ last.op = "PushCas" /\ last.val = BoolV(FALSE) /\ last.changed
    /\ treiber.state.threads[last.arg.int].state = "PushAllocated"
    /\ treiber.state.threads[last.arg.int].node_id \in DOMAIN treiber.state.nodes
    /\ treiber.state.pushed # {}
    /\ treiber.state.threads[last.arg.int].value \notin treiber.state.pushed

(***************************************************************************)
(* Specification SpecPicking: one Scheduler whose decide and force_switch  *)
(* calls are followed through the loop of pick_other_thread one iteration  *)
(* at a time (scheduler.rs 92-136).  The generator is an arbitrary one:    *)
(* gen_range(0..threads_count) answers any index of the range, gen_bool(p) *)
(* answers false for p = 0.0, true for p = 1.0 and either otherwise.  Both *)
(* builds are followed: with debug assertions a failed assertion ends the  *)
(* call in a panic; without them the assertions are absent and the         *)
(* counters wrap.                                                          *)
(***************************************************************************)

\* the number of decide and force_switch calls followed
MaxPicks == 3

PickingThreadCounts == {1, 2, 3}
PickingYieldProbabilities == {0, YIELD_PROBABILITY_DEFAULT, PROB_ONE}

\* A loop that is left on no candidate.
Scheduler_candidate_accepted_never(candidate, current_thread) == FALSE

\* pick_other_thread, the test that leaves the loop.
Scheduler_candidate_accepted(candidate, current_thread) ==
    candidate # current_thread

PickingInit ==
    /\ \E tc \in PickingThreadCounts, yp \in PickingYieldProbabilities,
          debug_assertions \in BOOLEAN :
          picking = [debug_assertions |-> debug_assertions,
                     sched |-> Scheduler_new(DeterministicRng_new(1).st, tc, yp).st,
                     pc |-> "idle", op |-> "none", calls |-> 0,
                     iterations |-> 0]
    /\ clock = Unused /\ rng = Unused /\ forked = Unused /\ fault = Unused
    /\ sched = Unused /\ env = Unused /\ env2 = Unused /\ pending = Unused
    /\ stack = Unused /\ checker = Unused
    /\ check_all_results = Unused /\ summary = Unused /\ advancing = Unused
    /\ treiber = Unused /\ ssi = Unused /\ raft = Unused
    /\ last = NoCall

PickingFrame ==
    UNCHANGED <<clock, rng, forked, fault, sched, env, env2, pending, stack,
                checker, check_all_results, summary, advancing, treiber, ssi,
                raft>>

\* x += 1 on a u64 counter: wraps where overflow is not checked.
Incremented(x) == (x + 1) % (U64_MAX + 1)

\* The iterations of the loop in the current call, counted up to one more
\* than the warning threshold of the generator.
Counted(x) == IF x > RNG_CALLS_WARNING_THRESHOLD THEN x ELSE x + 1

\* The caller is between calls and may make another.
BetweenCalls ==
    /\ picking.pc \in {"idle", "returned"}
    /\ picking.calls < MaxPicks

\* decide() up to its return or its entry into the loop of pick_other_thread.
Pick_decide ==
    /\ BetweenCalls
    /\ LET s1 == [picking.sched EXCEPT !.decisions_count = Incremented(@)]
           p1 == [picking EXCEPT !.sched = s1, !.op = "decide",
                                 !.calls = @ + 1, !.iterations = 0] IN
       IF picking.debug_assertions
          /\ ~(s1.decisions_count < DECISIONS_COUNT_WARNING_MAX)
       THEN /\ picking' = [p1 EXCEPT !.pc = "panicked"]
            /\ last' = CallRec("decide", NoV, Panic)
       ELSE IF s1.threads_count = 1
       THEN /\ picking' = [p1 EXCEPT !.pc = "returned"]
            /\ last' = CallRec("decide", NoV, Ok(Continue))
       ELSE \E yield \in BOOLEAN :
               /\ s1.yield_probability = 0 => ~yield
               /\ s1.yield_probability = PROB_ONE => yield
               /\ LET p2 == [p1 EXCEPT !.sched.rng.calls = Incremented(@)] IN
                  IF yield
                  THEN /\ picking' = [p2 EXCEPT !.pc = "loop"]
                       /\ last' = last
                  ELSE /\ picking' = [p2 EXCEPT !.pc = "returned"]
                       /\ last' = CallRec("decide", NoV, Ok(Continue))
    /\ PickingFrame

\* force_switch() up to its return or its entry into the loop.
Pick_force_switch ==
    /\ BetweenCalls
    /\ LET s1 == [picking.sched EXCEPT !.decisions_count = Incremented(@)]
           p1 == [picking EXCEPT !.sched = s1, !.op = "force_switch",
                                 !.calls = @ + 1, !.iterations = 0] IN
       IF s1.threads_count = 1
       THEN /\ picking' = [p1 EXCEPT !.pc = "returned"]
            /\ last' = CallInt("force_switch", NoV, Ok(0))
       ELSE /\ picking' = [p1 EXCEPT !.pc = "loop"]
            /\ last' = last
    /\ PickingFrame

\* gen_range panics: the call is counted and the count is at the warning
\* threshold (debug assertions only).
DrawPanics ==
    /\ picking.debug_assertions
    /\ ~(Incremented(picking.sched.rng.calls) < RNG_CALLS_WARNING_THRESHOLD)

\* One iteration of the loop whose candidate is accepted: the call returns.
Pick_draw_accepted ==
    /\ picking.pc = "loop" /\ ~DrawPanics
    /\ \E candidate \in 0..(picking.sched.threads_count - 1) :
          /\ Scheduler_candidate_accepted(candidate, picking.sched.current_thread)
          /\ picking' = [picking EXCEPT !.sched.rng.calls = Incremented(@),
                                        !.sched.current_thread = candidate,
                                        !.iterations = Counted(@),
                                        !.pc = "returned"]
          /\ last' = IF picking.op = "decide"
                     THEN CallRec("decide", IntV(picking.sched.current_thread),
                                  Ok(SwitchTo(candidate)))
                     ELSE CallInt("force_switch", IntV(picking.sched.current_thread),
                                  Ok(candidate))
    /\ PickingFrame

\* One iteration of the loop whose candidate is rejected: the loop goes on.
Pick_draw_rejected ==
    /\ picking.pc = "loop" /\ ~DrawPanics
    /\ \E candidate \in 0..(picking.sched.threads_count - 1) :
          /\ ~Scheduler_candidate_accepted(candidate, picking.sched.current_thread)
          /\ picking' = [picking EXCEPT !.sched.rng.calls = Incremented(@),
                                        !.iterations = Counted(@)]
          /\ last' = last
    /\ PickingFrame

\* One iteration of the loop in which gen_range's assertion fails.
Pick_draw_panics ==
    /\ picking.pc = "loop" /\ DrawPanics
    /\ picking' = [picking EXCEPT !.sched.rng.calls = Incremented(@),
                                  !.pc = "panicked"]
    /\ last' = CallRec(picking.op, IntV(picking.sched.current_thread), Panic)
    /\ PickingFrame

PickingNext ==
    \/ Pick_decide
    \/ Pick_force_switch
    \/ Pick_draw_accepted
    \/ Pick_draw_rejected
    \/ Pick_draw_panics

\* Fairness: the thread inside the call runs, and the generator does not
\* answer the current index forever.
SpecPicking ==
    /\ PickingInit /\ [][PickingNext]_vars
    /\ WF_vars(Pick_draw_accepted \/ Pick_draw_panics)

Operation_Begin(txn) ==
    [op |-> "Begin", txn |-> txn, key |-> 0, version |-> None, reason |-> "-"]
Operation_Read(txn, key, version) ==
    [op |-> "Read", txn |-> txn, key |-> key, version |-> version, reason |-> "-"]
Operation_Write(txn, key) ==
    [op |-> "Write", txn |-> txn, key |-> key, version |-> None, reason |-> "-"]
Operation_Commit(txn) ==
    [op |-> "Commit", txn |-> txn, key |-> 0, version |-> None, reason |-> "-"]
Operation_Abort(txn, reason) ==
    [op |-> "Abort", txn |-> txn, key |-> 0, version |-> None, reason |-> reason]

SsiState_new(txns, keys) ==
    [history |-> <<>>,
     txn_status |-> [t \in txns |-> "NotStarted"],
     txn_snapshot |-> [t \in txns |-> 0],
     write_locks |-> [k \in keys |-> None],
     siread_locks |-> [k \in keys |-> {}],
     in_conflict |-> [t \in txns |-> FALSE],
     out_conflict |-> [t \in txns |-> FALSE]]

SsiState_now(s) == Len(s.history)

\* txn_status.get(txn), "Unknown" standing for None.
SsiState_status(s, txn) ==
    IF txn \in DOMAIN s.txn_status THEN s.txn_status[txn] ELSE "Unknown"

SsiState_active_txns(s) ==
    {t \in DOMAIN s.txn_status : s.txn_status[t] = "Active"}

SsiState_committed_txns(s) ==
    {t \in DOMAIN s.txn_status : s.txn_status[t] = "Committed"}

\* The timestamps of the writes of `key` by transactions of `txns`.
WriteTimestamps(s, key, txns) ==
    {i \in 0..(Len(s.history) - 1) :
        /\ s.history[i + 1].op = "Write"
        /\ s.history[i + 1].key = key
        /\ s.history[i + 1].txn \in txns}

Maximum(S) == CHOOSE x \in S : \A y \in S : y <= x

SsiState_latest_version(s, key, snapshot_time) ==
    LET seen == {i \in WriteTimestamps(s, key, SsiState_committed_txns(s)) :
                    ~(i > snapshot_time)} IN
    IF seen = {} THEN None ELSE Some(s.history[Maximum(seen) + 1].txn)

SsiState_has_dangerous_structure(s, txn) ==
    /\ (IF txn \in DOMAIN s.in_conflict THEN s.in_conflict[txn] ELSE FALSE)
    /\ (IF txn \in DOMAIN s.out_conflict THEN s.out_conflict[txn] ELSE FALSE)

SsiState_newer_writers(s, key, after_ts, exclude_txn) ==
    LET active_or_committed ==
            {t \in DOMAIN s.txn_status : s.txn_status[t] \in {"Active", "Committed"}} IN
    {s.history[i + 1].txn :
        i \in {j \in WriteTimestamps(s, key, active_or_committed \ {exclude_txn}) :
                  j > after_ts}}

SsiState_concurrent_siread_holders(s, txn, key) ==
    LET txn_start == IF txn \in DOMAIN s.txn_snapshot THEN s.txn_snapshot[txn] ELSE 0 IN
    IF key \notin DOMAIN s.siread_locks THEN {}
    ELSE {holder \in s.siread_locks[key] :
            /\ holder # txn
            /\ \/ SsiState_status(s, holder) = "Active"
               \/ /\ SsiState_status(s, holder) = "Committed"
                  /\ \E i \in 0..(Len(s.history) - 1) :
                        /\ s.history[i + 1].op = "Commit"
                        /\ s.history[i + 1].txn = holder
                        /\ i > txn_start}

SsiAction(type, txn, key) == [type |-> type, txn |-> txn, key |-> key]

SsiState_possible_actions(s) ==
    UNION {
        IF s.txn_status[txn] = "NotStarted" THEN {SsiAction("Begin", txn, 0)}
        ELSE IF s.txn_status[txn] = "Active"
        THEN {SsiAction("Read", txn, key) : key \in DOMAIN s.write_locks}
             \cup {SsiAction("Write", txn, key) :
                      key \in {k \in DOMAIN s.write_locks :
                                  s.write_locks[k] = None \/ s.write_locks[k] = Some(txn)}}
             \cup (IF ~SsiState_has_dangerous_structure(s, txn)
                   THEN {SsiAction("Commit", txn, 0)} ELSE {})
             \cup {SsiAction("Abort", txn, 0)}
        ELSE {}
        : txn \in DOMAIN s.txn_status}

\* for locks in siread_locks.values_mut() { locks.remove(txn) }
WithoutSireadLocks(s, txn) ==
    [k \in DOMAIN s.siread_locks |-> s.siread_locks[k] \ {txn}]

\* for lock in write_locks.values_mut() { if *lock == Some(txn) { *lock = None } }
WithoutWriteLocks(s, txn) ==
    [k \in DOMAIN s.write_locks |->
        IF s.write_locks[k] = Some(txn) THEN None ELSE s.write_locks[k]]

\* apply, one operator for each SsiAction: None, or Some(next).
SsiState_apply_Begin(s, txn) ==
    IF SsiState_status(s, txn) # "NotStarted" THEN None
    ELSE Some([s EXCEPT !.history = Append(@, Operation_Begin(txn)),
                        !.txn_status[txn] = "Active",
                        !.txn_snapshot[txn] = (Len(s.history) + 1) - 1])

\* A Read that is performed whatever the flags of the newer writers.
SsiState_apply_Read_unchecked(s, txn, key) ==
    IF SsiState_status(s, txn) # "Active" THEN None
    ELSE LET snapshot == s.txn_snapshot[txn]
             version == IF s.write_locks[key] = Some(txn) THEN Some(txn)
                        ELSE SsiState_latest_version(s, key, snapshot)
             newer_writers == SsiState_newer_writers(s, key, snapshot, txn)
         IN Some([s EXCEPT !.history = Append(@, Operation_Read(txn, key, version)),
                           !.siread_locks[key] = @ \cup {txn},
                           !.in_conflict = [t \in DOMAIN s.in_conflict |->
                                               s.in_conflict[t] \/ t \in newer_writers],
                           !.out_conflict[txn] = @ \/ newer_writers # {}])

SsiState_apply_Read(s, txn, key) ==
    IF SsiState_status(s, txn) # "Active" THEN None
    ELSE LET snapshot == s.txn_snapshot[txn]
             version == IF s.write_locks[key] = Some(txn) THEN Some(txn)
                        ELSE SsiState_latest_version(s, key, snapshot)
             newer_writers == SsiState_newer_writers(s, key, snapshot, txn)
             would_violate == \E writer \in newer_writers :
                                 /\ s.txn_status[writer] = "Committed"
                                 /\ s.out_conflict[writer]
         IN IF would_violate
            THEN Some([s EXCEPT !.history = Append(@, Operation_Abort(txn, "ReadConflict")),
                                !.txn_status[txn] = "Aborted",
                                !.in_conflict[txn] = FALSE,
                                !.out_conflict[txn] = FALSE,
                                !.siread_locks = WithoutSireadLocks(s, txn)])
            ELSE Some([s EXCEPT !.history = Append(@, Operation_Read(txn, key, version)),
                                !.siread_locks[key] = @ \cup {txn},
                                !.in_conflict = [t \in DOMAIN s.in_conflict |->
                                                    s.in_conflict[t] \/ t \in newer_writers],
                                !.out_conflict[txn] = @ \/ newer_writers # {}])

\* A Write that does not look at the holder of the write lock.
SsiState_apply_Write_ignoring_lock(s, txn, key) ==
    IF SsiState_status(s, txn) # "Active" THEN None
    ELSE LET concurrent_readers == SsiState_concurrent_siread_holders(s, txn, key)
             would_violate == \E reader \in concurrent_readers :
                                 /\ s.txn_status[reader] = "Committed"
                                 /\ s.in_conflict[reader]
         IN IF would_violate
            THEN Some([s EXCEPT !.history = Append(@, Operation_Abort(txn, "WriteConflict")),
                                !.txn_status[txn] = "Aborted",
                                !.write_locks[key] =
                                    IF @ = Some(txn) THEN None ELSE @,
                                !.in_conflict[txn] = FALSE,
                                !.out_conflict[txn] = FALSE,
                                !.siread_locks = WithoutSireadLocks(s, txn)])
            ELSE Some([s EXCEPT !.history = Append(@, Operation_Write(txn, key)),
                                !.write_locks[key] = Some(txn),
                                !.out_conflict = [t \in DOMAIN s.out_conflict |->
                                                     s.out_conflict[t] \/ t \in concurrent_readers],
                                !.in_conflict[txn] = @ \/ concurrent_readers # {}])

SsiState_apply_Write(s, txn, key) ==
    IF SsiState_status(s, txn) # "Active" THEN None
    ELSE IF s.write_locks[key] # None /\ s.write_locks[key] # Some(txn) THEN None
    ELSE LET concurrent_readers == SsiState_concurrent_siread_holders(s, txn, key)
             would_violate == \E reader \in concurrent_readers :
                                 /\ s.txn_status[reader] = "Committed"
                                 /\ s.in_conflict[reader]
         IN IF would_violate
            THEN Some([s EXCEPT !.history = Append(@, Operation_Abort(txn, "WriteConflict")),
                                !.txn_status[txn] = "Aborted",
                                !.write_locks[key] =
                                    IF @ = Some(txn) THEN None ELSE @,
                                !.in_conflict[txn] = FALSE,
                                !.out_conflict[txn] = FALSE,
                                !.siread_locks = WithoutSireadLocks(s, txn)])
            ELSE Some([s EXCEPT !.history = Append(@, Operation_Write(txn, key)),
                                !.write_locks[key] = Some(txn),
                                !.out_conflict = [t \in DOMAIN s.out_conflict |->
                                                     s.out_conflict[t] \/ t \in concurrent_readers],
                                !.in_conflict[txn] = @ \/ concurrent_readers # {}])

SsiState_apply_Commit(s, txn) ==
    IF SsiState_status(s, txn) # "Active" THEN None
    ELSE IF SsiState_has_dangerous_structure(s, txn)
    THEN Some([s EXCEPT !.history = Append(@, Operation_Abort(txn, "DangerousStructure")),
                        !.txn_status[txn] = "Aborted",
                        !.write_locks = WithoutWriteLocks(s, txn),
                        !.in_conflict[txn] = FALSE,
                        !.out_conflict[txn] = FALSE,
                        !.siread_locks = WithoutSireadLocks(s, txn)])
    ELSE Some([s EXCEPT !.history = Append(@, Operation_Commit(txn)),
                        !.txn_status[txn] = "Committed",
                        !.write_locks = WithoutWriteLocks(s, txn)])

SsiState_apply_Abort(s, txn) ==
    IF SsiState_status(s, txn) # "Active" THEN None
    ELSE Some([s EXCEPT !.history = Append(@, Operation_Abort(txn, "Voluntary")),
                        !.txn_status[txn] = "Aborted",
                        !.write_locks = WithoutWriteLocks(s, txn),
                        !.siread_locks = WithoutSireadLocks(s, txn),
                        !.in_conflict[txn] = FALSE,
                        !.out_conflict[txn] = FALSE])

\* first_committer_wins: for every key, the writes of the key by committed
\* transactions, as (timestamp, txn) pairs in history order; false when two
\* of them have each its transaction's snapshot before the other's write.
SsiState_first_committer_wins(s) ==
    \A key \in DOMAIN s.write_locks :
       LET writers == WriteTimestamps(s, key, SsiState_committed_txns(s)) IN
       \A ts1 \in writers : \A ts2 \in writers :
          ts1 < ts2 =>
             LET snap1 == s.txn_snapshot[s.history[ts1 + 1].txn]
                 snap2 == s.txn_snapshot[s.history[ts2 + 1].txn]
             IN ~(snap1 < ts2 /\ snap2 < ts1)

SsiState_no_committed_dangerous_structures(s) ==
    \A txn \in SsiState_committed_txns(s) : ~SsiState_has_dangerous_structure(s, txn)

(***************************************************************************)
(* Specification SpecSsi: the SsiState of the tests' transactions and      *)
(* keys, and every sequence of apply calls on it, of actions that          *)
(* possible_actions offers and of actions it does not.                     *)
(***************************************************************************)

\* the longest history followed
MaxSsiHistory == 7

\* SsiState::new(&[1, 2], &[1, 2])
SsiTxns == {1, 2}
SsiKeys == {1, 2}

SsiInit ==
    /\ ssi = SsiState_new(SsiTxns, SsiKeys)
    /\ clock = Unused /\ rng = Unused /\ forked = Unused /\ fault = Unused
    /\ sched = Unused /\ env = Unused /\ env2 = Unused /\ pending = Unused
    /\ stack = Unused /\ checker = Unused
    /\ check_all_results = Unused /\ summary = Unused /\ advancing = Unused
    /\ treiber = Unused /\ raft = Unused /\ picking = Unused
    /\ last = NoCall

SsiFrame ==
    UNCHANGED <<clock, rng, forked, fault, sched, env, env2, pending, stack,
                checker, check_all_results, summary, advancing, treiber, raft,
                picking>>

\* The state after apply returned `result` for `action`: the caller keeps
\* its state on None and moves to the new state on Some.  A call that
\* returned Some is recorded by the operation it appended to the history; a
\* call that returned None is recorded in `last`.
Applied(action, result) ==
    /\ ssi' = IF result = None THEN ssi ELSE result[1]
    /\ last' = IF result # None THEN NoCall
               ELSE [op |-> action.type,
                     arg |-> [txn |-> action.txn, key |-> action.key],
                     tag |-> "ok", val |-> NoV]

\* The calls followed: those that keep the history within the bound.  The
\* calls that can follow a call that returned None are the calls that can
\* follow the state it left as it was, so they are followed from there.
Followed == Len(ssi.history) < MaxSsiHistory /\ last = NoCall

Ssi_Begin ==
    /\ Followed
    /\ \E txn \in SsiTxns :
          Applied(SsiAction("Begin", txn, 0), SsiState_apply_Begin(ssi, txn))
    /\ SsiFrame

Ssi_Read ==
    /\ Followed
    /\ \E txn \in SsiTxns, key \in SsiKeys :
          Applied(SsiAction("Read", txn, key), SsiState_apply_Read(ssi, txn, key))
    /\ SsiFrame

Ssi_Write ==
    /\ Followed
    /\ \E txn \in SsiTxns, key \in SsiKeys :
          Applied(SsiAction("Write", txn, key), SsiState_apply_Write(ssi, txn, key))
    /\ SsiFrame

Ssi_Commit ==
    /\ Followed
    /\ \E txn \in SsiTxns :
          Applied(SsiAction("Commit", txn, 0), SsiState_apply_Commit(ssi, txn))
    /\ SsiFrame

Ssi_Abort ==
    /\ Followed
    /\ \E txn \in SsiTxns :
          Applied(SsiAction("Abort", txn, 0), SsiState_apply_Abort(ssi, txn))
    /\ SsiFrame

SsiNext == Ssi_Begin \/ Ssi_Read \/ Ssi_Write \/ Ssi_Commit \/ Ssi_Abort

SpecSsi == SsiInit /\ [][SsiNext]_vars

\* C33: FirstCommitterWins: in every state reachable by applying actions,
\* first_committer_wins() is true.
C33_FirstCommitterWins == SsiState_first_committer_wins(ssi)

\* The same for writes of two different transactions only: no two committed
\* transactions have each written a key after the other's snapshot.
C33_DistinctCommittersWin ==
    \A key \in SsiKeys :
       LET writers == WriteTimestamps(ssi, key, SsiState_committed_txns(ssi)) IN
       \A ts1 \in writers : \A ts2 \in writers :
          (ts1 < ts2 /\ ssi.history[ts1 + 1].txn # ssi.history[ts2 + 1].txn) =>
             ~(/\ ssi.txn_snapshot[ssi.history[ts1 + 1].txn] < ts2
               /\ ssi.txn_snapshot[ssi.history[ts2 + 1].txn] < ts1)

\* C34: in every reachable state no Committed transaction has both
\* in_conflict and out_conflict set (no_committed_dangerous_structures() is
\* true); Commit is not offered for an Active transaction with both flags
\* and applying it aborts the transaction; and no step gives a transaction
\* that is Committed a flag that completes the pair.
C34_NoCommittedDangerousStructures ==
    /\ [](SsiState_no_committed_dangerous_structures(ssi))
    /\ [](\A txn \in SsiState_active_txns(ssi) :
             SsiState_has_dangerous_structure(ssi, txn) =>
                /\ SsiAction("Commit", txn, 0) \notin SsiState_possible_actions(ssi)
                /\ SsiState_apply_Commit(ssi, txn) # None
                /\ SsiState_apply_Commit(ssi, txn)[1].txn_status[txn] = "Aborted")
    /\ [][\A txn \in SsiState_committed_txns(ssi) :
             ~SsiState_has_dangerous_structure(ssi', txn)]_vars

\* C34 witness: Commit has been applied to a transaction with both flags,
\* for which it is not offered, and has aborted it.
C34_Witness ==
    /\ Len(ssi.history) >= 7
    /\ ssi.history[Len(ssi.history)].op = "Abort"
    /\ ssi.history[Len(ssi.history)].reason = "DangerousStructure"
    /\ \E t \in SsiTxns :
          /\ ssi.history[Len(ssi.history)].txn # t
          /\ ssi.txn_status[t] \in {"Active", "Committed"}
          /\ ssi.in_conflict[t] \/ ssi.out_conflict[t]

\* transaction ids that are not in the state's maps
UnknownTxns == {0}

\* C35: in every reachable state, for every key k whose write lock is held
\* by a transaction other than t, Write(t, k) is not among
\* possible_actions() and apply(Write(t, k)) is None; Read, Write, Commit
\* and Abort of a transaction that is not Active are None, and so is Begin
\* of a transaction that is not NotStarted; and a call that returns None
\* leaves the state as it was.
C35_BlockedActionsReturnNone ==
    /\ [](\A t \in SsiTxns \cup UnknownTxns :
           /\ \A k \in SsiKeys :
                 (ssi.write_locks[k] # None /\ ssi.write_locks[k] # Some(t)) =>
                    /\ SsiAction("Write", t, k) \notin SsiState_possible_actions(ssi)
                    /\ SsiState_apply_Write(ssi, t, k) = None
           /\ SsiState_status(ssi, t) # "Active" =>
                 /\ \A k \in SsiKeys :
                       /\ SsiState_apply_Read(ssi, t, k) = None
                       /\ SsiState_apply_Write(ssi, t, k) = None
                 /\ SsiState_apply_Commit(ssi, t) = None
                 /\ SsiState_apply_Abort(ssi, t) = None
                 /\ \A a \in SsiState_possible_actions(ssi) :
                       a.txn = t => a.type = "Begin"
           /\ SsiState_status(ssi, t) # "NotStarted" =>
                 SsiState_apply_Begin(ssi, t) = None)
    /\ [][last' # NoCall => ssi' = ssi]_vars

\* C35 witness: Write(t, k) has returned None for an Active transaction t
\* while another Active transaction holds the write lock of k
\* (test_concurrent_writers_blocked).
C35_Witness ==
    /\ last.op = "Write" /\ last.val = NoV
    /\ ssi.txn_status[last.arg.txn] = "Active"
    /\ \E h \in SsiTxns \ {last.arg.txn} :
          /\ ssi.write_locks[last.arg.key] = Some(h)
          /\ ssi.txn_status[h] = "Active"

\* C39: in every reachable state every held write lock belongs to an Active
\* transaction, and an Aborted transaction holds no SIREAD lock and has
\* both conflict flags cleared.
C39_LocksBelongToActive ==
    /\ \A k \in SsiKeys :
          ssi.write_locks[k] # None => ssi.txn_status[ssi.write_locks[k][1]] = "Active"
    /\ \A t \in SsiTxns :
          ssi.txn_status[t] = "Aborted" =>
             /\ \A k \in SsiKeys : t \notin ssi.siread_locks[k]
             /\ ~ssi.in_conflict[t] /\ ~ssi.out_conflict[t]

\* What holds of locks: a held write lock belongs to a transaction that is
\* Active or was aborted by a Read or a Write, and the second part of C39.
C39_LocksBelongToActiveOrConflictAborted ==
    /\ \A k \in SsiKeys :
          ssi.write_locks[k] # None =>
             LET h == ssi.write_locks[k][1] IN
             \/ ssi.txn_status[h] = "Active"
             \/ /\ ssi.txn_status[h] = "Aborted"
                /\ \E i \in 1..Len(ssi.history) :
                      /\ ssi.history[i].op = "Abort" /\ ssi.history[i].txn = h
                      /\ ssi.history[i].reason \in {"ReadConflict", "WriteConflict"}
    /\ \A t \in SsiTxns :
          ssi.txn_status[t] = "Aborted" =>
             /\ \A k \in SsiKeys : t \notin ssi.siread_locks[k]
             /\ ~ssi.in_conflict[t] /\ ~ssi.out_conflict[t]

(***************************************************************************)
(* RaftElection (results/v2/raft_election_best.rs)                         *)
(*                                                                         *)
(* The packed word is an integer laid out as the code lays it out, with    *)
(* the term and voted_for fields scaled to TERM_BITS and VOTED_BITS bits.  *)
(* votes_received is the set of the bit indices that are set.              *)
(***************************************************************************)

STATE_FOLLOWER == 0
STATE_CANDIDATE == 1
STATE_LEADER == 2

TERM_BITS == 3
VOTED_BITS == 3
STATE_BITS == 2

STATE_MASK == Pow2(STATE_BITS) - 1
VOTED_MASK == Pow2(VOTED_BITS) - 1
TERM_MASK == Pow2(TERM_BITS) - 1

state_to_u64(state) ==
    IF state = "Follower" THEN STATE_FOLLOWER
    ELSE IF state = "Candidate" THEN STATE_CANDIDATE
    ELSE STATE_LEADER

u64_to_state(v) ==
    IF v = STATE_FOLLOWER THEN "Follower"
    ELSE IF v = STATE_CANDIDATE THEN "Candidate"
    ELSE IF v = STATE_LEADER THEN "Leader"
    ELSE "Follower"

\* x & mask for a mask of the form 2^n - 1
Masked(x, mask) == x % (mask + 1)

\* Layout: [term | voted_for | state]
pack(term, voted_for, state) ==
    LET t == Masked(term, TERM_MASK)
        v == IF voted_for = None THEN 0 ELSE Masked(voted_for[1] + 1, VOTED_MASK)
        s == Masked(state_to_u64(state), STATE_MASK)
    IN t * Pow2(VOTED_BITS + STATE_BITS) + v * Pow2(STATE_BITS) + s

unpack_term(packed) ==
    Masked(packed \div Pow2(VOTED_BITS + STATE_BITS), TERM_MASK)

unpack_voted_for(packed) ==
    LET v == Masked(packed \div Pow2(STATE_BITS), VOTED_MASK) IN
    IF v = 0 THEN None ELSE Some(v - 1)

unpack_state(packed) == u64_to_state(Masked(packed, STATE_MASK))

RaftElection_quorum_size(cluster_size) == (cluster_size \div 2) + 1

\* id_to_bit: the position of the id in server_ids, counted from 0.
RaftElection_id_to_bit(server_ids, id) ==
    (CHOOSE i \in 1..Len(server_ids) :
        /\ server_ids[i] = id
        /\ \A j \in (i + 1)..Len(server_ids) : server_ids[j] # id) - 1

RaftElection_new(server_ids) ==
    [server_ids |-> server_ids,
     cluster_size |-> Cardinality(SeqToSet(server_ids)),
     servers |-> [id \in SeqToSet(server_ids) |->
                     [packed |-> pack(0, None, "Follower"), votes_received |-> {}]]]

(***************************************************************************)
(* Specification SpecRaft: one RaftElection shared by threads that call    *)
(* timeout, handle_vote_request, handle_vote_response, handle_heartbeat    *)
(* and create_heartbeat, every atomic operation of a call being one step.  *)
(* raft.calls holds the calls in progress with their local variables;      *)
(* raft.msgs holds the messages in flight, each with the server that is    *)
(* to handle it: a VoteRequest goes to every server other than its         *)
(* candidate (as run_election does), a VoteResponse to the candidate of    *)
(* the request it answers, a Heartbeat to a server other than its leader.  *)
(* A message is handled once, at any later time.  raft.granted records     *)
(* the votes granted, as <<voter, candidate, term>>.                       *)
(***************************************************************************)

\* the number of calls in progress at a time
MaxRaftCalls == 2
\* the number of calls of timeout
MaxRaftTimeouts == 2

\* The clusters, each with the servers whose election timer fires: one
\* server; three servers, one of them with the id VOTED_MASK, whose
\* successor does not fit VOTED_BITS bits; four servers, one of them
\* running elections (as run_election(0) does, from several threads).
RaftClusters ==
    {[server_ids |-> <<1>>, candidates |-> {1}],
     [server_ids |-> <<1, 2, VOTED_MASK>>, candidates |-> {1, 2, VOTED_MASK}],
     [server_ids |-> <<0, 1, 2, 3>>, candidates |-> {0}]}

\* `to` is the server that is to handle the message.
NoMsg == [type |-> "none", term |-> 0, id |-> 0, vote_granted |-> FALSE, to |-> 0]
VoteRequest(term, candidate_id, to) ==
    [type |-> "VoteRequest", term |-> term, id |-> candidate_id,
     vote_granted |-> FALSE, to |-> to]
VoteResponse(term, vote_granted, voter_id, to) ==
    [type |-> "VoteResponse", term |-> term, id |-> voter_id,
     vote_granted |-> vote_granted, to |-> to]
Heartbeat(term, leader_id, to) ==
    [type |-> "Heartbeat", term |-> term, id |-> leader_id,
     vote_granted |-> FALSE, to |-> to]

\* A call in progress: the method, its arguments, the next atomic
\* operation, and the local variables that are live across operations.
NoCallInProgress ==
    [fn |-> "none", server |-> 0, msg |-> NoMsg, pc |-> "none",
     old_packed |-> 0, new_packed |-> 0, current_term |-> 0,
     vote_granted |-> FALSE, current |-> 0]
NewCall(fn, server, msg) ==
    [NoCallInProgress EXCEPT !.fn = fn, !.server = server, !.msg = msg, !.pc = "load"]

RaftSlots == 1..MaxRaftCalls

RaftInit ==
    /\ \E cluster \in RaftClusters :
          raft = [election |-> RaftElection_new(cluster.server_ids),
                  candidates |-> cluster.candidates,
                  calls |-> [i \in RaftSlots |-> NoCallInProgress],
                  msgs |-> {}, granted |-> {}, timeouts |-> 0]
    /\ clock = Unused /\ rng = Unused /\ forked = Unused /\ fault = Unused
    /\ sched = Unused /\ env = Unused /\ env2 = Unused /\ pending = Unused
    /\ stack = Unused /\ checker = Unused
    /\ check_all_results = Unused /\ summary = Unused /\ advancing = Unused
    /\ treiber = Unused /\ ssi = Unused /\ picking = Unused
    /\ last = NoCall

RaftFrame ==
    UNCHANGED <<clock, rng, forked, fault, sched, env, env2, pending, stack,
                checker, check_all_results, summary, advancing, treiber, ssi,
                picking, last>>

RaftIds == DOMAIN raft.election.servers
Packed(id) == raft.election.servers[id].packed

\* The slot a new call takes: the first free one.
FreeSlot(i) ==
    /\ raft.calls[i].fn = "none"
    /\ \A j \in RaftSlots : j < i => raft.calls[j].fn # "none"

\* A call on `server` runs concurrently with the calls in progress on the
\* same server only: calls on distinct servers share no atomic word, so
\* they are taken one after the other.
Concurrent(server) ==
    \A j \in RaftSlots : raft.calls[j].fn # "none" => raft.calls[j].server = server

\* The calls of `fn` that are about to load the packed word, as <<slot, call>>:
\* the calls in progress that are there, and the calls that can begin.
Loading(fn, arguments) ==
    {<<i, raft.calls[i]>> : i \in {j \in RaftSlots :
                                     raft.calls[j].fn = fn /\ raft.calls[j].pc = "load"}}
    \cup {<<i, NewCall(fn, a[1], a[2])>> : i \in {j \in RaftSlots : FreeSlot(j)},
                                           a \in {x \in arguments : Concurrent(x[1])}}

\* The calls in progress of `fn` that are at `pc`.
At(fn, pc) == {i \in RaftSlots : raft.calls[i].fn = fn /\ raft.calls[i].pc = pc}

\* The message a call takes out of raft.msgs when it begins.
Handled(l) == IF raft.calls[l[1]].fn = "none" THEN l[2].msg ELSE NoMsg

\* The state after the call in slot i has done an atomic operation: the
\* server's words, the call's local state (NoCallInProgress when it has
\* returned), the message it began with and the messages it returned.
Step(i, id, packed, votes_received, call, handled, returned) ==
    raft' = [raft EXCEPT
               !.election.servers[id] = [packed |-> packed,
                                         votes_received |-> votes_received],
               !.calls[i] = call,
               !.msgs = (@ \ {handled}) \cup returned,
               !.granted = @ \cup {<<m.id, m.to, m.term>> :
                                     m \in {r \in returned : r.vote_granted}},
               !.timeouts = IF raft.calls[i].fn = "none" /\ call.fn = "timeout"
                            THEN @ + 1 ELSE @]

\* What timeout returns goes to every other server.
VoteRequests(term, candidate_id) ==
    {VoteRequest(term, candidate_id, to) : to \in RaftIds \ {candidate_id}}

Votes(id) == raft.election.servers[id].votes_received

\* ---- timeout (174-215)
TimeoutArguments ==
    {<<id, NoMsg>> : id \in {x \in raft.candidates : raft.timeouts < MaxRaftTimeouts}}

\* The messages of a type that are in flight, each with its handler.
Arguments(type) == {<<m.to, m>> : m \in {r \in raft.msgs : r.type = type}}

Tmo_load ==
    /\ \E l \in Loading("timeout", TimeoutArguments) :
          LET c == l[2]
              old_packed == Packed(c.server)
              new_term == unpack_term(old_packed) + 1
          IN Step(l[1], c.server, Packed(c.server), Votes(c.server),
                  [c EXCEPT !.pc = "cas", !.old_packed = old_packed,
                            !.current_term = new_term,
                            !.new_packed = pack(new_term, Some(c.server), "Candidate")],
                  Handled(l), {})
    /\ RaftFrame

Tmo_cas ==
    /\ \E i \in At("timeout", "cas") :
          LET c == raft.calls[i] IN
          IF Packed(c.server) = c.old_packed
          THEN Step(i, c.server, c.new_packed, Votes(c.server),
                    [c EXCEPT !.pc = "store"], NoMsg, {})
          ELSE Step(i, c.server, Packed(c.server), Votes(c.server),
                    NewCall("timeout", c.server, NoMsg), NoMsg, {})
    /\ RaftFrame

Tmo_store ==
    /\ \E i \in At("timeout", "store") :
          LET c == raft.calls[i]
              self_bit == RaftElection_id_to_bit(raft.election.server_ids, c.server)
          IN IF raft.election.cluster_size = 1
             THEN Step(i, c.server, Packed(c.server), {self_bit},
                       [c EXCEPT !.pc = "cas_leader"], NoMsg, {})
             ELSE Step(i, c.server, Packed(c.server), {self_bit},
                       NoCallInProgress, NoMsg, VoteRequests(c.current_term, c.server))
    /\ RaftFrame

Tmo_cas_leader ==
    /\ \E i \in At("timeout", "cas_leader") :
          LET c == raft.calls[i]
              leader_packed == pack(c.current_term, Some(c.server), "Leader")
          IN Step(i, c.server,
                  IF Packed(c.server) = c.new_packed THEN leader_packed
                  ELSE Packed(c.server),
                  Votes(c.server), NoCallInProgress,
                  NoMsg, VoteRequests(c.current_term, c.server))
    /\ RaftFrame

\* ---- handle_vote_request (217-277)
Vrq_load ==
    /\ \E l \in Loading("handle_vote_request", Arguments("VoteRequest")) :
          LET c == l[2]
              request == c.msg
              old_packed == Packed(c.server)
              higher == request.term > unpack_term(old_packed)
              current_term == IF higher THEN request.term ELSE unpack_term(old_packed)
              state == IF higher THEN "Follower" ELSE unpack_state(old_packed)
              voted_for0 == IF higher THEN None ELSE unpack_voted_for(old_packed)
              vote_granted == /\ request.term >= current_term
                              /\ (voted_for0 = None \/ voted_for0 = Some(request.id))
              voted_for == IF vote_granted THEN Some(request.id) ELSE voted_for0
              new_packed == pack(current_term, voted_for, state)
          IN IF old_packed = new_packed
             THEN Step(l[1], c.server, Packed(c.server), Votes(c.server),
                       NoCallInProgress,
                       Handled(l), {VoteResponse(current_term, vote_granted, c.server, request.id)})
             ELSE Step(l[1], c.server, Packed(c.server), Votes(c.server),
                       [c EXCEPT !.pc = "cas", !.old_packed = old_packed,
                                 !.new_packed = new_packed,
                                 !.current_term = current_term,
                                 !.vote_granted = vote_granted],
                       Handled(l), {})
    /\ RaftFrame

Vrq_cas ==
    /\ \E i \in At("handle_vote_request", "cas") :
          LET c == raft.calls[i] IN
          IF Packed(c.server) = c.old_packed
          THEN IF unpack_state(c.new_packed) = "Follower"
                  /\ unpack_state(c.old_packed) # "Follower"
               THEN Step(i, c.server, c.new_packed, Votes(c.server),
                         [c EXCEPT !.pc = "store"], NoMsg, {})
               ELSE Step(i, c.server, c.new_packed, Votes(c.server),
                         NoCallInProgress,
                         NoMsg, {VoteResponse(c.current_term, c.vote_granted, c.server, c.msg.id)})
          ELSE Step(i, c.server, Packed(c.server), Votes(c.server),
                    NewCall("handle_vote_request", c.server, c.msg), NoMsg, {})
    /\ RaftFrame

Vrq_store ==
    /\ \E i \in At("handle_vote_request", "store") :
          LET c == raft.calls[i] IN
          Step(i, c.server, Packed(c.server), {}, NoCallInProgress,
               NoMsg, {VoteResponse(c.current_term, c.vote_granted, c.server, c.msg.id)})
    /\ RaftFrame

\* ---- handle_vote_response (279-347)
Vrs_load ==
    /\ \E l \in Loading("handle_vote_response", Arguments("VoteResponse")) :
          LET c == l[2]
              response == c.msg
              old_packed == Packed(c.server)
              current_term == unpack_term(old_packed)
              state == unpack_state(old_packed)
              loaded == [c EXCEPT !.old_packed = old_packed,
                                  !.current_term = current_term]
          IN IF response.term > current_term
             THEN Step(l[1], c.server, Packed(c.server), Votes(c.server),
                       [loaded EXCEPT !.pc = "cas_down",
                                      !.new_packed = pack(response.term, None, "Follower")],
                       Handled(l), {})
             ELSE IF state # "Candidate" \/ response.term # current_term
             THEN Step(l[1], c.server, Packed(c.server), Votes(c.server),
                       NoCallInProgress, Handled(l), {})
             ELSE IF response.vote_granted /\ response.id \in RaftIds
             THEN Step(l[1], c.server, Packed(c.server), Votes(c.server),
                       [loaded EXCEPT !.pc = "fetch_or"], Handled(l), {})
             ELSE Step(l[1], c.server, Packed(c.server), Votes(c.server),
                       NoCallInProgress, Handled(l), {})
    /\ RaftFrame

Vrs_cas_down ==
    /\ \E i \in At("handle_vote_response", "cas_down") :
          LET c == raft.calls[i] IN
          IF Packed(c.server) = c.old_packed
          THEN Step(i, c.server, c.new_packed, Votes(c.server),
                    [c EXCEPT !.pc = "store"], NoMsg, {})
          ELSE Step(i, c.server, Packed(c.server), Votes(c.server),
                    NewCall("handle_vote_response", c.server, c.msg), NoMsg, {})
    /\ RaftFrame

Vrs_store ==
    /\ \E i \in At("handle_vote_response", "store") :
          LET c == raft.calls[i] IN
          Step(i, c.server, Packed(c.server), {}, NoCallInProgress, NoMsg, {})
    /\ RaftFrame

Vrs_fetch_or ==
    /\ \E i \in At("handle_vote_response", "fetch_or") :
          LET c == raft.calls[i]
              bit == RaftElection_id_to_bit(raft.election.server_ids, c.msg.id)
              new_votes == Votes(c.server) \cup {bit}
              vote_count == Cardinality(new_votes)
          IN IF vote_count >= RaftElection_quorum_size(raft.election.cluster_size)
             THEN Step(i, c.server, Packed(c.server), new_votes,
                       [c EXCEPT !.pc = "load_current"], NoMsg, {})
             ELSE Step(i, c.server, Packed(c.server), new_votes,
                       NoCallInProgress, NoMsg, {})
    /\ RaftFrame

Vrs_load_current ==
    /\ \E i \in At("handle_vote_response", "load_current") :
          LET c == raft.calls[i]
              current == Packed(c.server)
          IN IF unpack_state(current) = "Candidate"
                /\ unpack_term(current) = c.current_term
             THEN Step(i, c.server, Packed(c.server), Votes(c.server),
                       [c EXCEPT !.pc = "cas_leader", !.current = current], NoMsg, {})
             ELSE Step(i, c.server, Packed(c.server), Votes(c.server),
                       [c EXCEPT !.pc = "final"], NoMsg, {})
    /\ RaftFrame

Vrs_cas_leader ==
    /\ \E i \in At("handle_vote_response", "cas_leader") :
          LET c == raft.calls[i]
              leader_packed == pack(c.current_term, Some(c.server), "Leader")
          IN Step(i, c.server,
                  IF Packed(c.server) = c.current THEN leader_packed
                  ELSE Packed(c.server),
                  Votes(c.server), [c EXCEPT !.pc = "final"], NoMsg, {})
    /\ RaftFrame

Vrs_final ==
    /\ \E i \in At("handle_vote_response", "final") :
          LET c == raft.calls[i] IN
          Step(i, c.server, Packed(c.server), Votes(c.server), NoCallInProgress, NoMsg, {})
    /\ RaftFrame

\* ---- handle_heartbeat (349-389) and create_heartbeat (391-407)
Hb_load ==
    /\ \E l \in Loading("handle_heartbeat", Arguments("Heartbeat")) :
          LET c == l[2]
              heartbeat == c.msg
              old_packed == Packed(c.server)
              current_term == unpack_term(old_packed)
              voted_for == IF heartbeat.term > current_term THEN None
                           ELSE unpack_voted_for(old_packed)
              new_packed == pack(heartbeat.term, voted_for, "Follower")
          IN IF heartbeat.term >= current_term
             THEN IF old_packed = new_packed
                  THEN Step(l[1], c.server, Packed(c.server), Votes(c.server),
                            [c EXCEPT !.pc = "store"], Handled(l), {})
                  ELSE Step(l[1], c.server, Packed(c.server), Votes(c.server),
                            [c EXCEPT !.pc = "cas", !.old_packed = old_packed,
                                      !.new_packed = new_packed], Handled(l), {})
             ELSE Step(l[1], c.server, Packed(c.server), Votes(c.server),
                       NoCallInProgress, Handled(l), {})
    /\ RaftFrame

Hb_cas ==
    /\ \E i \in At("handle_heartbeat", "cas") :
          LET c == raft.calls[i] IN
          IF Packed(c.server) = c.old_packed
          THEN Step(i, c.server, c.new_packed, Votes(c.server),
                    [c EXCEPT !.pc = "store"], NoMsg, {})
          ELSE Step(i, c.server, Packed(c.server), Votes(c.server),
                    NewCall("handle_heartbeat", c.server, c.msg), NoMsg, {})
    /\ RaftFrame

Hb_store ==
    /\ \E i \in At("handle_heartbeat", "store") :
          LET c == raft.calls[i] IN
          Step(i, c.server, Packed(c.server), {}, NoCallInProgress, NoMsg, {})
    /\ RaftFrame

\* create_heartbeat is one load; it returns a Heartbeat for a Leader.
Raft_create_heartbeat ==
    /\ \E i \in {j \in RaftSlots : FreeSlot(j)}, leader_id \in RaftIds,
          to \in RaftIds :
          /\ unpack_state(Packed(leader_id)) = "Leader"
          /\ to # leader_id
          /\ Concurrent(leader_id)
          /\ Heartbeat(unpack_term(Packed(leader_id)), leader_id, to) \notin raft.msgs
          /\ Step(i, leader_id, Packed(leader_id), Votes(leader_id),
                  NoCallInProgress, NoMsg,
                  {Heartbeat(unpack_term(Packed(leader_id)), leader_id, to)})
    /\ RaftFrame

RaftNext ==
    \/ Tmo_load \/ Tmo_cas \/ Tmo_store \/ Tmo_cas_leader
    \/ Vrq_load \/ Vrq_cas \/ Vrq_store
    \/ Vrs_load \/ Vrs_cas_down \/ Vrs_store \/ Vrs_fetch_or
    \/ Vrs_load_current \/ Vrs_cas_leader \/ Vrs_final
    \/ Hb_load \/ Hb_cas \/ Hb_store
    \/ Raft_create_heartbeat

SpecRaft == RaftInit /\ [][RaftNext]_vars

Leaders(term) ==
    {id \in RaftIds : /\ unpack_state(Packed(id)) = "Leader"
                      /\ unpack_term(Packed(id)) = term}

\* The servers that have granted `candidate` their vote in `term`: the
\* candidate itself, and the voters whose handle_vote_request has returned
\* a granted response to the candidate's request of that term.
Granted(candidate, term) ==
    {candidate} \cup
    {g[1] : g \in {h \in raft.granted : h[2] = candidate /\ h[3] = term}}

\* C40: election safety: no two distinct servers are Leader in the same
\* term, and a Leader of term T has been granted the vote of a quorum of
\* servers in term T.
C40_ElectionSafety ==
    \A term \in 0..TERM_MASK :
       /\ Cardinality(Leaders(term)) <= 1
       /\ \A id \in Leaders(term) :
             Cardinality(Granted(id, term))
                >= RaftElection_quorum_size(raft.election.cluster_size)

====
